---- MODULE Spec2Model ----
(***************************************************************************)
(* Model of the retrieval-augmented query pipeline of rag-pipeline-turkish *)
(* (retrieval.py, vector_store.py, llm_generator.py, app.py).              *)
(*                                                                         *)
(* Python dicts are functions with a string domain, lists are sequences,   *)
(* None is the string "None", and a float score is an integer (the score   *)
(* times 100).  A text assembled by concatenation is the sequence of the   *)
(* pieces that are concatenated.                                           *)
(***************************************************************************)
EXTENDS Integers, Sequences, FiniteSets, TLC

VARIABLES
    points,        \* the records of the Qdrant collection, in insertion order
    vector_store,  \* RetrievalEngine.vector_store: which store the engine holds
    _reranker,     \* RetrievalEngine._reranker: "None" until the Ranker is loaded
    pc,            \* position of the running retrieve call
    frame,         \* the locals of the running (or last) retrieve call
    ret,           \* the value retrieve returned
    fn,            \* pure-function checks: the function applied, or "none"
    arg,           \* pure-function checks: its argument
    val,           \* pure-function checks: its value
    collections,   \* the collections the Qdrant client holds
    creates,       \* create_collection calls made for the collection since it was last absent
    store_ret,     \* the last VectorStore call and what it returned
    GROQ_API_KEY,  \* config.GROQ_API_KEY, "" when the environment has none
    _llm_generator_instance,  \* llm_generator._llm_generator_instance
    session,       \* st.session_state
    resp,          \* the last handler run by the application and what it did
    singletons,    \* the module globals and attributes that hold the lazily made objects
    constructions, \* how many objects have been made for each of them
    callers        \* the callers of the accessors: position, cell, object returned

vars == <<points, vector_store, _reranker, pc, frame, ret, fn, arg, val,
          collections, creates, store_ret, GROQ_API_KEY, _llm_generator_instance,
          session, resp,
         singletons, constructions, callers>>

----------------------------------------------------------------------------
(* Bounds of the model *)

MaxPoints == 3      \* most records the collection holds
MaxK == 3           \* top_k_initial and top_k_final range over 1..MaxK

(* Values the environment draws from *)

None == "None"
Queries == {"KDV orani nedir?", "Fatura tarihi?"}
SimScores == {70, 90}        \* cosine similarity of a stored vector to the query
RerankScores == {10, 95}     \* relevance score given by the reranker

----------------------------------------------------------------------------
(* Dict and list helpers *)

\* d[k] = v on a dict
Put(d, k, v) == (k :> v) @@ d

\* d.get(k, default)
Get(d, k, default) == IF k \in DOMAIN d THEN d[k] ELSE default

\* s[:n] for n >= 0
Take(s, n) == SubSeq(s, 1, IF n < Len(s) THEN n ELSE Len(s))

Min(a, b) == IF a < b THEN a ELSE b

RECURSIVE InsertDesc(_, _)
\* x put into the sequence s (sorted by score, descending) behind every
\* element whose score is at least x's
InsertDesc(s, x) ==
    IF Len(s) = 0 THEN <<x>>
    ELSE IF Head(s).score >= x.score THEN <<Head(s)>> \o InsertDesc(Tail(s), x)
    ELSE <<x>> \o s

RECURSIVE SortDesc(_)
\* s sorted by score, descending, equal scores keeping their order
SortDesc(s) ==
    IF Len(s) = 0 THEN <<>>
    ELSE InsertDesc(SortDesc(SubSeq(s, 1, Len(s) - 1)), s[Len(s)])

Perms(n) == {p \in [1..n -> 1..n] : \A i, j \in 1..n : p[i] = p[j] => i = j}

----------------------------------------------------------------------------
(* vector_store.py *)

\* The (texts, metadatas) pairs add_documents is called with.
Batches ==
    { [texts |-> <<"KDV orani %18", "Fatura kesim tarihi">>,
       has_metadatas |-> TRUE,
       metadatas |-> << [source |-> "vergi.pdf", chunk_index |-> 0, page_number |-> 1],
                        [source |-> "vergi.pdf", chunk_index |-> 1, page_number |-> 1] >>],
      [texts |-> <<"Amortisman suresi">>,
       has_metadatas |-> FALSE,
       metadatas |-> <<>>] }

\* metadatas = [{} for _ in texts] when metadatas is None
default_metadatas(texts, has_metadatas, metadatas) ==
    IF has_metadatas THEN metadatas ELSE [i \in 1..Len(texts) |-> <<>>]

\* documents = [Document(page_content=text, metadata=meta) for text, meta in zip(...)]
documents(texts, metadatas) ==
    [i \in 1..Min(Len(texts), Len(metadatas)) |->
        [page_content |-> texts[i], metadata |-> metadatas[i]]]

RECURSIVE store_add_documents_upsert(_, _)
\* Faulty variant of store_add_documents: a document whose text is already
\* stored replaces that record instead of becoming a new one
store_add_documents_upsert(pts, docs) ==
    IF Len(docs) = 0 THEN pts
    ELSE LET d == Head(docs)
             same == {i \in 1..Len(pts) : pts[i].page_content = d.page_content}
         IN  store_add_documents_upsert(
                 IF same = {}
                 THEN Append(pts, [id |-> Len(pts) + 1, page_content |-> d.page_content,
                                   metadata |-> d.metadata])
                 ELSE [i \in 1..Len(pts) |->
                          IF i \in same THEN [pts[i] EXCEPT !.metadata = d.metadata]
                          ELSE pts[i]],
                 Tail(docs))

\* self._vector_store.add_documents(documents): one new record per document,
\* each under an id of its own
store_add_documents(pts, docs) ==
    pts \o [i \in 1..Len(docs) |->
               [id |-> Len(pts) + i,
                page_content |-> docs[i].page_content,
                metadata |-> docs[i].metadata]]

\* self._vector_store.similarity_search_with_score(query, k): the k records
\* most similar to the query, most similar first, each as (Document, score);
\* the Document's metadata carries the record's id as "_id"
similarity_search_with_score(pts, sims, k) ==
    Take(SortDesc([i \in 1..Len(pts) |->
                      [doc |-> [page_content |-> pts[i].page_content,
                                metadata |-> Put(pts[i].metadata, "_id", pts[i].id)],
                       score |-> sims[i]]]), k)

\* one entry of formatted_results
format_result(doc, score) ==
    [id |-> Get(doc.metadata, "_id", ""),
     score |-> score,
     text |-> doc.page_content,
     source |-> Get(doc.metadata, "source", "Bilinmeyen"),
     chunk_index |-> Get(doc.metadata, "chunk_index", -1),
     page_number |-> Get(doc.metadata, "page_number", -1),
     metadata |-> doc.metadata]

\* VectorStore.search: the formatted hits, or [] when the query of the index
\* raises
search(pts, index, top_k) ==
    IF index.fails THEN <<>>
    ELSE LET results == similarity_search_with_score(pts, index.sims, top_k)
         IN  [i \in 1..Len(results) |-> format_result(results[i].doc, results[i].score)]

\* What the index does with one query: it raises, or it scores every record
IndexOutcomes(pts) ==
    {[fails |-> TRUE, sims |-> <<>>]}
        \cup {[fails |-> FALSE, sims |-> sims] : sims \in [1..Len(pts) -> SimScores]}

\* Faulty variant of store_search: the exception of the index goes on to the
\* caller
store_search_propagate(store, pts, index, top_k) ==
    IF store = "VectorStore" /\ ~index.fails
    THEN [raised |-> FALSE, error |-> "", results |-> search(pts, index, top_k)]
    ELSE [raised |-> TRUE, error |-> "Search error", results |-> <<>>]

\* The outcome of self.vector_store.search(...) as retrieve sees it: the
\* VectorStore returns, a store whose search raises (as the engine's tests
\* install) does not.
store_search(store, pts, index, top_k) ==
    IF store = "VectorStore"
    THEN [raised |-> FALSE, error |-> "", results |-> search(pts, index, top_k)]
    ELSE [raised |-> TRUE, error |-> "Search error", results |-> <<>>]

COLLECTION_NAME == "documents_tr"
EMBEDDING_DIMENSION == 384

\* VectorParams(size=EMBEDDING_DIMENSION, distance=Distance.COSINE)
vectors_config == [size |-> EMBEDDING_DIMENSION, distance |-> "Cosine"]

\* [c.name for c in collections]
collection_names(cols) == {c.name : c \in cols}

\* self._client.create_collection(collection_name, vectors_config)
create_collection(cols, name, config) ==
    cols \cup {[name |-> name, vectors_config |-> config]}

\* self._client.delete_collection(collection_name)
delete_collection(cols, name) == {c \in cols : c.name # name}

\* What the client does during _ensure_collection_exists: get_collections
\* raises or answers, create_collection raises or creates
EnsureOutcomes == [check_raises : BOOLEAN, create_raises : BOOLEAN]

\* Faulty variant of _ensure_collection_exists: a collection that exists is
\* created afresh
_ensure_collection_exists_recreate(cols, pts, env) ==
    IF env.check_raises
    THEN [collections |-> cols, points |-> pts, created |-> FALSE, raised |-> TRUE]
    ELSE IF env.create_raises
    THEN [collections |-> cols, points |-> pts, created |-> FALSE, raised |-> TRUE]
    ELSE [collections |-> create_collection(delete_collection(cols, COLLECTION_NAME),
                                            COLLECTION_NAME, vectors_config),
          points |-> <<>>, created |-> TRUE, raised |-> FALSE]

\* VectorStore._ensure_collection_exists: the collections, the records of
\* the collection, whether create_collection went through and whether the
\* method raised
_ensure_collection_exists(cols, pts, env) ==
    IF env.check_raises
    THEN [collections |-> cols, points |-> pts, created |-> FALSE, raised |-> TRUE]
    ELSE IF COLLECTION_NAME \notin collection_names(cols)
    THEN IF env.create_raises
         THEN [collections |-> cols, points |-> pts, created |-> FALSE, raised |-> TRUE]
         ELSE [collections |-> create_collection(cols, COLLECTION_NAME, vectors_config),
               points |-> <<>>, created |-> TRUE, raised |-> FALSE]
    ELSE [collections |-> cols, points |-> pts, created |-> FALSE, raised |-> FALSE]

\* VectorStore.add_documents on the collection: the ids of the new records,
\* or the exception of the store (which a missing collection always brings)
add_documents(cols, pts, batch, raises) ==
    IF raises \/ COLLECTION_NAME \notin collection_names(cols)
    THEN [points |-> pts, ids |-> <<>>, raised |-> TRUE]
    ELSE LET docs == documents(batch.texts,
                               default_metadatas(batch.texts, batch.has_metadatas,
                                                 batch.metadatas))
             after == store_add_documents(pts, docs)
         IN  [points |-> after,
              ids |-> [i \in 1..(Len(after) - Len(pts)) |-> after[Len(pts) + i].id],
              raised |-> FALSE]

\* What the index does with one query of the collection: without the
\* collection the query raises
CollectionIndexOutcomes(cols, pts) ==
    IF COLLECTION_NAME \in collection_names(cols) THEN IndexOutcomes(pts)
    ELSE {[fails |-> TRUE, sims |-> <<>>]}

\* VectorStore.get_collection_stats
get_collection_stats(cols, pts, raises) ==
    IF raises \/ COLLECTION_NAME \notin collection_names(cols)
    THEN [name |-> COLLECTION_NAME, vectors_count |-> 0, points_count |-> 0,
          status |-> "error"]
    ELSE [name |-> COLLECTION_NAME, vectors_count |-> Len(pts), points_count |-> Len(pts),
          status |-> "green"]

\* What the client and the langchain store do during VectorStore.__init__
InitOutcomes == [check_raises : BOOLEAN, create_raises : BOOLEAN, store_raises : BOOLEAN]

\* What the client and the langchain store do during clear_collection
ClearOutcomes ==
    [delete_raises : BOOLEAN, check_raises : BOOLEAN, create_raises : BOOLEAN,
     store_raises : BOOLEAN]

\* Faulty variant of clear_collection: the collection is not deleted
clear_collection_keep(cols, pts, env) ==
    IF env.delete_raises
    THEN [collections |-> cols, points |-> pts, created |-> FALSE, raised |-> TRUE]
    ELSE LET e == _ensure_collection_exists(cols, pts, env)
         IN  IF e.raised THEN e ELSE [e EXCEPT !.raised = env.store_raises]

\* VectorStore.clear_collection: delete_collection, _ensure_collection_exists,
\* a new QdrantVectorStore; whatever raises is raised again
clear_collection(cols, pts, env) ==
    IF env.delete_raises
    THEN [collections |-> cols, points |-> pts, created |-> FALSE, raised |-> TRUE]
    ELSE LET e == _ensure_collection_exists(delete_collection(cols, COLLECTION_NAME),
                                            <<>>, env)
         IN  IF e.raised THEN e ELSE [e EXCEPT !.raised = env.store_raises]

----------------------------------------------------------------------------
(* retrieval.py *)

\* debug_info as retrieve first builds it
debug_info_init(query, use_reranking, top_k_initial, top_k_final) ==
    [query |-> query, use_reranking |-> use_reranking,
     top_k_initial |-> top_k_initial, top_k_final |-> top_k_final]

\* Faulty variant of debug_info_stage1: the top score read from the last
\* candidate instead of the first
debug_info_stage1_last(debug_info, initial_results) ==
    Put(Put(debug_info, "stage1_count", Len(initial_results)),
        "stage1_top_score",
        IF Len(initial_results) > 0 THEN initial_results[Len(initial_results)].score ELSE 0)

\* debug_info after the stage-1 search
debug_info_stage1(debug_info, initial_results) ==
    Put(Put(debug_info, "stage1_count", Len(initial_results)),
        "stage1_top_score",
        IF Len(initial_results) > 0 THEN initial_results[1].score ELSE 0)

\* Faulty variant of except_handler: the exception is raised again
except_handler_reraise(debug_info, e) ==
    [results |-> <<>>, debug_info |-> debug_info, raised |-> TRUE]

\* except Exception as e: debug_info["error"] = str(e); return [], debug_info
except_handler(debug_info, e) ==
    [results |-> <<>>, debug_info |-> Put(debug_info, "error", e), raised |-> FALSE]

\* Faulty variant of skip_reranking: "and" for "or"
skip_reranking_and(use_reranking, initial_results) ==
    ~use_reranking /\ Len(initial_results) = 0

\* if not use_reranking or len(initial_results) == 0
skip_reranking(use_reranking, initial_results) ==
    ~use_reranking \/ Len(initial_results) = 0

\* the branch taken when reranking is off or stage 1 found nothing
vector_only(initial_results, top_k_final, debug_info) ==
    [results |-> Take(initial_results, top_k_final),
     debug_info |-> Put(debug_info, "final_method", "vector_only"),
     raised |-> FALSE]

\* passages = [{"id": i, "text": r["text"], "meta": r} for i, r in enumerate(...)]
passages(initial_results) ==
    [i \in 1..Len(initial_results) |->
        [id |-> i - 1, text |-> initial_results[i].text, meta |-> initial_results[i]]]

\* Ranker.rerank: every passage once, with a score, in the order the ranker
\* chooses
rerank(psgs, order, scores) ==
    [j \in 1..Len(psgs) |->
        [id |-> psgs[order[j]].id, text |-> psgs[order[j]].text,
         meta |-> psgs[order[j]].meta, score |-> scores[j]]]

\* Variant of rerank_failed that falls back to the stage-1 candidates
rerank_failed_fallback(initial_results, top_k_final, debug_info, e) ==
    vector_only(initial_results, top_k_final, debug_info)

\* what retrieve returns when self.reranker or rerank raises: the exception
\* leaves the try block, whatever stage 1 found
rerank_failed(initial_results, top_k_final, debug_info, e) ==
    except_handler(debug_info, e)

\* Faulty variant of reranked_result: original_score takes the reranker's score
reranked_result_rescored(item) ==
    [id |-> item.meta.id,
     score |-> item.score,
     original_score |-> item.score,
     text |-> item.text,
     source |-> item.meta.source,
     chunk_index |-> item.meta.chunk_index,
     page_number |-> Get(item.meta, "page_number", -1),
     metadata |-> item.meta.metadata]

\* one entry of reranked_results
reranked_result(item) ==
    [id |-> item.meta.id,
     score |-> item.score,
     original_score |-> item.meta.score,
     text |-> item.text,
     source |-> item.meta.source,
     chunk_index |-> item.meta.chunk_index,
     page_number |-> Get(item.meta, "page_number", -1),
     metadata |-> item.meta.metadata]

\* Faulty variant of sort_by_score_reverse: the sort is left out
sort_missing(reranked_results) == reranked_results

RECURSIVE sort_ties_reversed(_)
\* Faulty variant of sort_by_score_reverse: sorted by score, descending, but
\* items of equal score come out in the reverse of the order they came in
sort_ties_reversed(reranked_results) ==
    IF Len(reranked_results) = 0 THEN <<>>
    ELSE InsertDesc(sort_ties_reversed(Tail(reranked_results)), Head(reranked_results))

\* reranked_results.sort(key=lambda x: x["score"], reverse=True)
sort_by_score_reverse(reranked_results) == SortDesc(reranked_results)

\* the branch taken when the reranker has returned
reranked_return(reranked, top_k_final, debug_info) ==
    LET reranked_results ==
            sort_by_score_reverse([i \in 1..Len(reranked) |-> reranked_result(reranked[i])])
        final_results == Take(reranked_results, top_k_final)
    IN  [results |-> final_results,
         debug_info |->
            Put(Put(debug_info, "final_method", "reranked"),
                "stage2_top_score",
                IF Len(final_results) > 0 THEN final_results[1].score ELSE 0),
         raised |-> FALSE]

\* "sep".join(parts)
RECURSIVE Join(_, _)
Join(sep, parts) ==
    IF Len(parts) = 0 THEN <<>>
    ELSE IF Len(parts) = 1 THEN parts[1]
    ELSE parts[1] \o sep \o Join(sep, Tail(parts))

\* Faulty variant of context_part: a page 0 is shown too
context_part_page_zero(i, r) ==
    LET source == Get(r, "source", "Unknown Source")
        page == Get(r, "page_number", -1)
        text == Get(r, "text", "")
    IN  IF page >= 0
        THEN <<"[Kaynak ", ToString(i), ": ", source, ", Sayfa ", ToString(page), "]\n", text>>
        ELSE <<"[Kaynak ", ToString(i), ": ", source, "]\n", text>>

\* one entry of context_parts: the f-string of result r, the i-th of the list
context_part(i, r) ==
    LET source == Get(r, "source", "Unknown Source")
        page == Get(r, "page_number", -1)
        text == Get(r, "text", "")
    IN  IF page > 0
        THEN <<"[Kaynak ", ToString(i), ": ", source, ", Sayfa ", ToString(page), "]\n", text>>
        ELSE <<"[Kaynak ", ToString(i), ": ", source, "]\n", text>>

\* RetrievalEngine.build_context
build_context(results) ==
    IF Len(results) = 0 THEN <<"No context found.">>
    ELSE Join(<<"\n\n---\n\n">>, [i \in 1..Len(results) |-> context_part(i, results[i])])

\* Faulty variant of format_source: original_score defaults to 0
format_source_zero_default(i, r) ==
    [index |-> i,
     source |-> Get(r, "source", "Bilinmeyen"),
     page_number |-> Get(r, "page_number", -1),
     text |-> Get(r, "text", ""),
     score |-> Get(r, "score", 0),
     original_score |-> Get(r, "original_score", 0)]

\* one entry of sources
format_source(i, r) ==
    [index |-> i,
     source |-> Get(r, "source", "Bilinmeyen"),
     page_number |-> Get(r, "page_number", -1),
     text |-> Get(r, "text", ""),
     score |-> Get(r, "score", 0),
     original_score |-> Get(r, "original_score", Get(r, "score", 0))]

\* RetrievalEngine.format_sources
format_sources(results) ==
    [i \in 1..Len(results) |-> format_source(i, results[i])]

----------------------------------------------------------------------------
(* llm_generator.py *)

HistoryContentLimit == 500    \* msg["content"][:500]

\* Faulty variant of history_line: the content is not cut
history_line_uncut(msg) ==
    <<IF msg.role = "user" THEN "User: " ELSE "Assistant: ">> \o msg.content

\* one entry of formatted_parts: f"{role}: {content}"
history_line(msg) ==
    LET role == IF msg.role = "user" THEN "User" ELSE "Assistant"
        content == Take(msg.content, HistoryContentLimit)
    IN  <<role \o ": ">> \o content

\* LLMGenerator._format_chat_history
_format_chat_history(chat_history) ==
    IF Len(chat_history) = 0 THEN <<"No conversation history yet.">>
    ELSE Join(<<"\n">>, [i \in 1..Len(chat_history) |-> history_line(chat_history[i])])

\* SYSTEM_PROMPT_TR.format(context=..., question=..., chat_history=...): the
\* three texts put into the template
formatted_prompt(question, context, chat_history) ==
    [context |-> context, question |-> question,
     chat_history |-> _format_chat_history(chat_history)]

\* What the provider does with one completion request: the call raises, or
\* it answers with a list of choices
NoChoices == <<>>

\* Faulty variant of generate: the exception of the provider goes on to the
\* caller
generate_propagate(question, context, chat_history, provider) ==
    [prompt |-> formatted_prompt(question, context, chat_history),
     raised |-> provider.raises \/ Len(provider.choices) = 0,
     value |-> IF provider.raises \/ Len(provider.choices) = 0 THEN None
               ELSE provider.choices[1]]

\* LLMGenerator.generate: response.choices[0].message.content, or the fixed
\* message when the call or the reading of the response raises
generate(question, context, chat_history, provider) ==
    [prompt |-> formatted_prompt(question, context, chat_history),
     raised |-> FALSE,
     value |-> IF provider.raises \/ Len(provider.choices) = 0
               THEN "Connection error, please try again."
               ELSE provider.choices[1]]

\* the chunks whose delta.content is not empty
content_fragments(chunks) == SelectSeq(chunks, LAMBDA c : c # "")

\* LLMGenerator.generate_stream, consumed to its end: the fragments yielded.
\* The provider raises when the stream is opened, or delivers chunks and then
\* ends, normally or (broken) with an exception.
generate_stream(question, context, chat_history, provider) ==
    [prompt |-> formatted_prompt(question, context, chat_history),
     raised |-> FALSE,
     yielded |-> IF provider.open_raises
                 THEN <<"Connection error, please try again.">>
                 ELSE content_fragments(provider.chunks) \o
                      (IF provider.broken
                       THEN <<"Connection error, please try again.">>
                       ELSE <<>>)]

\* Faulty variant of LLMGenerator_init: the empty key is handed to the client
LLMGenerator_init_unchecked(api_key, groq_raises) ==
    IF groq_raises
    THEN [raised |-> TRUE, error |-> "GroqError", client_created |-> FALSE,
          generator |-> None]
    ELSE [raised |-> FALSE, error |-> "", client_created |-> TRUE,
          generator |-> "LLMGenerator"]

\* LLMGenerator.__init__: ValueError on an empty key, before Groq(api_key=...)
LLMGenerator_init(api_key, groq_raises) ==
    IF api_key = ""
    THEN [raised |-> TRUE, error |-> "ValueError", client_created |-> FALSE,
          generator |-> None]
    ELSE IF groq_raises
    THEN [raised |-> TRUE, error |-> "GroqError", client_created |-> FALSE,
          generator |-> None]
    ELSE [raised |-> FALSE, error |-> "", client_created |-> TRUE,
          generator |-> "LLMGenerator"]

\* get_llm_generator: the instance kept by the module after the call, and
\* what the call did
get_llm_generator(instance, api_key, groq_raises) ==
    IF instance = None
    THEN LET g == LLMGenerator_init(api_key, groq_raises)
         IN  [instance |-> g.generator, raised |-> g.raised, error |-> g.error,
              client_created |-> g.client_created]
    ELSE [instance |-> instance, raised |-> FALSE, error |-> "",
          client_created |-> FALSE]

----------------------------------------------------------------------------
(* State *)

NoFrame ==
    [query |-> "", use_reranking |-> FALSE, top_k_initial |-> 0, top_k_final |-> 0,
     searched |-> FALSE, index_failed |-> FALSE, initial_results |-> <<>>,
     debug_info |-> <<>>, reranked |-> <<>>, exc |-> "none",
     ranker_loaded |-> FALSE, rerank_called |-> FALSE]

NoRet == [results |-> <<>>, debug_info |-> <<>>, raised |-> FALSE]

NoStoreRet == [op |-> "none"]

NoResp == [op |-> "none"]

\* init_session_state
init_session_state ==
    [documents_processed |-> FALSE, chunk_count |-> 0, chat_history |-> <<>>,
     sources |-> <<>>]

store_vars == <<collections, creates, store_ret>>
generator_vars == <<GROQ_API_KEY, _llm_generator_instance>>
session_vars == <<session, resp>>
singleton_vars == <<singletons, constructions, callers>>

\* The lazily made objects: the module globals behind the four accessors, and
\* the two attributes behind the properties model and reranker
Cells == {"_embedder_instance", "_vector_store_instance",
          "_retrieval_engine_instance", "_llm_generator_instance",
          "TurkishEmbedder._model", "RetrievalEngine._reranker"}

Callers == {"a", "b"}

\* "is None" for a cell; the objects made for a cell are numbered from 1
NoObject == 0

NoCall == [pc |-> "idle", cell |-> "none", held |-> NoObject]

\* the modules right after import: no object made, nobody calling
InitSingletonVars ==
    /\ singletons = [c \in Cells |-> NoObject]
    /\ constructions = [c \in Cells |-> 0]
    /\ callers = [t \in Callers |-> NoCall]

\* the store after VectorStore.__init__ made the collection, no call made yet
InitStoreVars ==
    /\ collections = {[name |-> COLLECTION_NAME, vectors_config |-> vectors_config]}
    /\ creates = 1
    /\ store_ret = NoStoreRet

\* the generator module after import with a key in the environment
InitGeneratorVars ==
    /\ GROQ_API_KEY = "gsk_key"
    /\ _llm_generator_instance = None

\* the session after init_session_state, no handler run yet
InitSessionVars ==
    /\ session = init_session_state
    /\ resp = NoResp

\* The engine right after construction, over an empty collection.  The store
\* it holds is the VectorStore, or (as in the engine's tests) a store whose
\* search raises.
Init ==
    /\ points = <<>>
    /\ vector_store \in {"VectorStore", "RaisingStore"}
    /\ _reranker = None
    /\ pc = "idle"
    /\ frame = NoFrame
    /\ ret = NoRet
    /\ fn = "none"
    /\ arg = <<>>
    /\ val = <<>>
    /\ InitStoreVars
    /\ InitGeneratorVars
    /\ InitSessionVars
    /\ InitSingletonVars

pure_vars == <<fn, arg, val>>

\* VectorStore.add_documents: the documents are stored, or the store raises,
\* nothing is stored and the exception goes on to the caller
AddDocuments(batch, raises) ==
    /\ pc = "idle"
    /\ Len(points) + Len(batch.texts) <= MaxPoints
    /\ points' = IF raises THEN points
                 ELSE store_add_documents(points,
                        documents(batch.texts,
                                  default_metadatas(batch.texts, batch.has_metadatas,
                                                    batch.metadatas)))
    /\ UNCHANGED <<vector_store, _reranker, pc, frame, ret, pure_vars, store_vars, generator_vars, session_vars, singleton_vars>>

\* RetrievalEngine.retrieve up to the call of the reranker: the stage-1
\* search and, when reranking is off or nothing was found, the return
RetrieveStage1(query, use_reranking, top_k_initial, top_k_final, index) ==
    /\ pc = "idle"
    /\ LET debug_info == debug_info_init(query, use_reranking, top_k_initial, top_k_final)
           s == store_search(vector_store, points, index, top_k_initial)
           called == [NoFrame EXCEPT !.query = query, !.use_reranking = use_reranking,
                                     !.top_k_initial = top_k_initial,
                                     !.top_k_final = top_k_final,
                                     !.index_failed = (vector_store = "VectorStore" /\ index.fails)]
       IN  IF s.raised
           THEN /\ frame' = [called EXCEPT !.debug_info = debug_info, !.exc = "search"]
                /\ ret' = except_handler(debug_info, s.error)
                /\ pc' = "returned"
           ELSE LET initial_results == s.results
                    debug1 == debug_info_stage1(debug_info, initial_results)
                    found == [called EXCEPT !.searched = TRUE,
                                            !.initial_results = initial_results,
                                            !.debug_info = debug1]
                IN  IF skip_reranking(use_reranking, initial_results)
                    THEN /\ frame' = found
                         /\ ret' = vector_only(initial_results, top_k_final, debug1)
                         /\ pc' = "returned"
                    ELSE /\ frame' = found
                         /\ ret' = NoRet
                         /\ pc' = "rerank"
    /\ UNCHANGED <<points, vector_store, _reranker, pure_vars, store_vars, generator_vars, session_vars, singleton_vars>>

\* RetrievalEngine.retrieve from the call of the reranker on: the reranker
\* property (loading the Ranker on first use), rerank, the sort and the cut
RetrieveStage2(load_raises, rerank_raises, order, scores) ==
    /\ pc = "rerank"
    /\ LET loading == (_reranker = None)
       IN  IF loading /\ load_raises
           THEN /\ _reranker' = None
                /\ frame' = [frame EXCEPT !.exc = "ranker_load"]
                /\ ret' = rerank_failed(frame.initial_results, frame.top_k_final,
                                      frame.debug_info, "Ranker error")
           ELSE IF rerank_raises
           THEN /\ _reranker' = "Ranker"
                /\ frame' = [frame EXCEPT !.exc = "rerank", !.ranker_loaded = loading,
                                          !.rerank_called = TRUE]
                /\ ret' = rerank_failed(frame.initial_results, frame.top_k_final,
                                      frame.debug_info, "Rerank error")
           ELSE LET reranked == rerank(passages(frame.initial_results), order, scores)
                IN  /\ _reranker' = "Ranker"
                    /\ frame' = [frame EXCEPT !.reranked = reranked,
                                              !.ranker_loaded = loading,
                                              !.rerank_called = TRUE]
                    /\ ret' = reranked_return(reranked, frame.top_k_final, frame.debug_info)
    /\ pc' = "returned"
    /\ UNCHANGED <<points, vector_store, pure_vars, store_vars, generator_vars, session_vars, singleton_vars>>

\* the caller takes the returned pair
Return ==
    /\ pc = "returned"
    /\ pc' = "idle"
    /\ frame' = NoFrame
    /\ ret' = NoRet
    /\ UNCHANGED <<points, vector_store, _reranker, pure_vars, store_vars, generator_vars, session_vars, singleton_vars>>

Next ==
    \/ \E batch \in Batches, raises \in BOOLEAN : AddDocuments(batch, raises)
    \/ /\ pc = "idle"
       /\ \E query \in Queries, use_reranking \in BOOLEAN,
             top_k_initial \in 1..MaxK, top_k_final \in 1..MaxK :
             \E index \in IndexOutcomes(points) :
                RetrieveStage1(query, use_reranking, top_k_initial, top_k_final, index)
    \/ /\ pc = "rerank"
       /\ \E load_raises \in BOOLEAN, rerank_raises \in BOOLEAN,
             order \in Perms(Len(frame.initial_results)),
             scores \in [1..Len(frame.initial_results) -> RerankScores] :
             RetrieveStage2(load_raises, rerank_raises, order, scores)
    \/ Return

Spec == Init /\ [][Next]_vars

----------------------------------------------------------------------------
(* Claims about retrieve, checked under Spec *)

Returned == pc = "returned"
Has(d, k) == k \in DOMAIN d
C1List == frame.initial_results
RerankerRaised == frame.exc \in {"ranker_load", "rerank"}
RerankedPath == Returned /\ frame.exc = "none" /\ frame.rerank_called

\* C1 as the spec states it: when reranking is requested, stage 1 returns a
\* non-empty C1 and the reranker raises, retrieve returns the first
\* top_k_final items of C1 with final_method "vector_only".
C1_FallbackOnRerankerError ==
    (Returned /\ frame.use_reranking /\ frame.searched /\ Len(C1List) > 0 /\ RerankerRaised)
        => /\ ret.results = Take(C1List, frame.top_k_final)
           /\ Has(ret.debug_info, "final_method")
           /\ ret.debug_info.final_method = "vector_only"

\* C1 as amended: when reranking is requested, stage 1 returns a non-empty C1
\* and the reranker raises (while being loaded or during rerank), retrieve
\* returns the empty list, no item of C1, and diagnostics that carry an error
\* field, the stage-1 count, and no final_method.
C1_EmptyOnRerankerError ==
    (Returned /\ frame.use_reranking /\ frame.searched /\ Len(C1List) > 0 /\ RerankerRaised)
        => /\ ret.results = <<>>
           /\ ~ret.raised
           /\ Has(ret.debug_info, "error")
           /\ ~Has(ret.debug_info, "final_method")
           /\ Has(ret.debug_info, "stage1_count")
           /\ ret.debug_info.stage1_count = Len(C1List)

\* the reranker could not be loaded although stage 1 found two candidates
C1_Witness ==
    Returned /\ frame.use_reranking /\ frame.exc = "ranker_load" /\ Len(C1List) >= 2

\* C2: retrieve never raises: whenever the vector search call or the reranker
\* raises inside it, it returns the empty list and diagnostics with an
\* "error" field.
C2_NeverRaises ==
    Returned =>
        /\ ~ret.raised
        /\ (frame.exc # "none" =>
                /\ ret.results = <<>>
                /\ Has(ret.debug_info, "error"))

\* the vector search call itself raised
C2_Witness == Returned /\ frame.exc = "search" /\ ~ret.raised

\* C3 as the spec states it: in the composed system, whenever the query of
\* the index fails, retrieve returns the empty list and diagnostics with an
\* error field.
C3_IndexFailureReported ==
    (Returned /\ vector_store = "VectorStore" /\ frame.index_failed)
        => /\ ret.results = <<>>
           /\ Has(ret.debug_info, "error")

\* C4: if use_reranking is false, or stage 1 returns no candidates, retrieve
\* returns exactly the first min(top_k_final, |C1|) stage-1 results in
\* unchanged order with final_method "vector_only", and the reranker is
\* neither loaded nor invoked (the call never reaches the reranker).
C4_VectorOnly ==
    /\ (Returned /\ frame.searched /\ (~frame.use_reranking \/ Len(C1List) = 0))
        => /\ Len(ret.results) = Min(frame.top_k_final, Len(C1List))
           /\ \A i \in 1..Len(ret.results) : ret.results[i] = C1List[i]
           /\ Has(ret.debug_info, "final_method")
           /\ ret.debug_info.final_method = "vector_only"
           /\ ~frame.ranker_loaded
           /\ ~frame.rerank_called
    /\ pc = "rerank" => (frame.use_reranking /\ Len(C1List) > 0)

\* reranking off, and stage 1 found more than top_k_final candidates
C4_Witness ==
    Returned /\ frame.searched /\ ~frame.use_reranking
        /\ Len(C1List) > frame.top_k_final /\ Len(ret.results) = frame.top_k_final

ResultIds == {ret.results[i].id : i \in 1..Len(ret.results)}

\* C5: with reranking requested, C1 non-empty and the reranker succeeding,
\* the output is sorted by reranker score, non-increasing, consists of the
\* min(top_k_final, n) highest-scored of the n items the reranker returned,
\* has length <= top_k_final and <= top_k_initial, and final_method is
\* "reranked".
C5_RerankedSortedTopK ==
    (Returned /\ frame.use_reranking /\ frame.searched /\ Len(C1List) > 0
        /\ frame.exc = "none")
        => /\ frame.rerank_called
           /\ Has(ret.debug_info, "final_method")
           /\ ret.debug_info.final_method = "reranked"
           /\ \A i \in 1..Len(ret.results) - 1 :
                 ret.results[i].score >= ret.results[i + 1].score
           /\ Len(ret.results) = Min(frame.top_k_final, Len(frame.reranked))
           /\ Cardinality(ResultIds) = Len(ret.results)
           /\ \A i \in 1..Len(ret.results) :
                 \E j \in 1..Len(frame.reranked) :
                    /\ frame.reranked[j].meta.id = ret.results[i].id
                    /\ frame.reranked[j].score = ret.results[i].score
           /\ \A j \in 1..Len(frame.reranked) :
                 frame.reranked[j].meta.id \notin ResultIds =>
                    \A i \in 1..Len(ret.results) :
                       frame.reranked[j].score <= ret.results[i].score
           /\ Len(ret.results) <= frame.top_k_final
           /\ Len(ret.results) <= frame.top_k_initial

\* the reranker returned its items out of score order, and more of them than
\* top_k_final
C5_Witness ==
    RerankedPath /\ Len(frame.reranked) > frame.top_k_final
        /\ frame.reranked[1].score < frame.reranked[Len(frame.reranked)].score

\* C6: every item returned on the reranked path corresponds to one stage-1
\* candidate: its id, source, chunk_index and metadata are that candidate's,
\* its original_score is that candidate's stage-1 score and its score the
\* reranker's; no candidate appears twice, and the result is never larger
\* than the stage-1 result.
C6_RerankedFromCandidates ==
    RerankedPath =>
        /\ \A i \in 1..Len(ret.results) :
              \E c \in 1..Len(C1List) :
                 /\ ret.results[i].id = C1List[c].id
                 /\ ret.results[i].source = C1List[c].source
                 /\ ret.results[i].chunk_index = C1List[c].chunk_index
                 /\ ret.results[i].metadata = C1List[c].metadata
                 /\ ret.results[i].original_score = C1List[c].score
                 /\ \E j \in 1..Len(frame.reranked) :
                       /\ frame.reranked[j].id = c - 1
                       /\ ret.results[i].score = frame.reranked[j].score
        /\ \A i, k \in 1..Len(ret.results) :
              ret.results[i].id = ret.results[k].id => i = k
        /\ Len(ret.results) <= Len(C1List)

\* two items returned, the first of them not the stage-1 winner, its
\* reranker score different from its stage-1 score
C6_Witness ==
    RerankedPath /\ Len(ret.results) >= 2
        /\ ret.results[1].id # C1List[1].id
        /\ ret.results[1].score # ret.results[1].original_score

\* the place of the point with this id in the list the reranker returned
RerankedAt(id) == CHOOSE j \in 1..Len(frame.reranked) : frame.reranked[j].meta.id = id

\* C27: on the reranked path, returned items of equal reranker score are in
\* the order in which the reranker returned them, and of two items of equal
\* score the one the reranker returned later is returned only if the earlier
\* one is: the reranker's order alone decides which tied items are cut.
C27_TiesInRerankerOrder ==
    RerankedPath =>
        /\ \A i, k \in 1..Len(ret.results) :
              (i < k /\ ret.results[i].score = ret.results[k].score)
                 => RerankedAt(ret.results[i].id) < RerankedAt(ret.results[k].id)
        /\ \A j1, j2 \in 1..Len(frame.reranked) :
              (/\ j1 < j2
               /\ frame.reranked[j1].score = frame.reranked[j2].score
               /\ frame.reranked[j2].meta.id \in ResultIds)
                 => frame.reranked[j1].meta.id \in ResultIds

\* two items of equal score, the reranker returned the stage-1 runner-up
\* before the stage-1 winner, and only the runner-up survived the cut
C27_Witness ==
    /\ RerankedPath
    /\ Len(frame.reranked) >= 2
    /\ frame.reranked[1].score = frame.reranked[2].score
    /\ frame.reranked[1].id > frame.reranked[2].id
    /\ Len(ret.results) = 1
    /\ ret.results[1].id = frame.reranked[1].meta.id

\* C7 as the spec states it: every return, the failure path included,
\* carries query, use_reranking, stage1_count, stage1_top_score and
\* final_method; stage2_top_score is present exactly when final_method is
\* "reranked" and is the first returned item's score.  Stated for the engine
\* over the VectorStore.
C7_DiagnosticsOnEveryPath ==
    (Returned /\ vector_store = "VectorStore") =>
        /\ Has(ret.debug_info, "query") /\ ret.debug_info.query = frame.query
        /\ Has(ret.debug_info, "use_reranking")
        /\ ret.debug_info.use_reranking = frame.use_reranking
        /\ Has(ret.debug_info, "stage1_count")
        /\ ret.debug_info.stage1_count = Len(C1List)
        /\ Has(ret.debug_info, "stage1_top_score")
        /\ ret.debug_info.stage1_top_score
              = (IF Len(C1List) > 0 THEN C1List[1].score ELSE 0)
        /\ Has(ret.debug_info, "final_method")
        /\ ret.debug_info.final_method \in {"vector_only", "reranked"}
        /\ Has(ret.debug_info, "stage2_top_score")
              <=> ret.debug_info.final_method = "reranked"
        /\ Has(ret.debug_info, "stage2_top_score")
              => ret.debug_info.stage2_top_score = ret.results[1].score

\* C7 as amended: every return carries the query text and use_reranking.
\* Every return but the failure path carries stage1_count (= |C1|),
\* stage1_top_score (the first candidate's score, 0 when C1 is empty) and
\* final_method in {"vector_only", "reranked"}, and stage2_top_score exactly
\* when final_method is "reranked", equal to the first returned item's score.
\* On the failure path (an exception caught inside retrieve) the diagnostics
\* carry an error field, no final_method and no stage2_top_score, and the
\* two stage-1 fields only if the stage-1 search had returned.
C7_Diagnostics ==
    Returned =>
        /\ Has(ret.debug_info, "query") /\ ret.debug_info.query = frame.query
        /\ Has(ret.debug_info, "use_reranking")
        /\ ret.debug_info.use_reranking = frame.use_reranking
        /\ Has(ret.debug_info, "stage1_count") <=> frame.searched
        /\ Has(ret.debug_info, "stage1_top_score") <=> frame.searched
        /\ frame.searched =>
              /\ ret.debug_info.stage1_count = Len(C1List)
              /\ ret.debug_info.stage1_top_score
                    = (IF Len(C1List) > 0 THEN C1List[1].score ELSE 0)
        /\ Has(ret.debug_info, "final_method") <=> frame.exc = "none"
        /\ Has(ret.debug_info, "error") <=> frame.exc # "none"
        /\ frame.exc = "none" =>
              /\ ret.debug_info.final_method \in {"vector_only", "reranked"}
              /\ Has(ret.debug_info, "stage2_top_score")
                    <=> ret.debug_info.final_method = "reranked"
        /\ frame.exc # "none" => ~Has(ret.debug_info, "stage2_top_score")
        /\ Has(ret.debug_info, "stage2_top_score") =>
              /\ Len(ret.results) > 0
              /\ ret.debug_info.stage2_top_score = ret.results[1].score

\* a reranked return whose stage-2 top score differs from its stage-1 top
\* score, the first candidate not being the best
C7_Witness ==
    RerankedPath /\ Has(ret.debug_info, "stage2_top_score")
        /\ ret.debug_info.stage2_top_score # ret.debug_info.stage1_top_score
        /\ Len(C1List) >= 2 /\ C1List[1].score > C1List[Len(C1List)].score

----------------------------------------------------------------------------
(* build_context and format_sources on result lists: SpecContext *)

MaxResults == 3     \* longest result list given to build_context and format_sources

\* Result dicts of the shapes the callers pass: a stage-1 result, a reranked
\* result of a record stored without metadata, and the partial dicts of the
\* engine's tests.
SampleResults ==
    { format_result([page_content |-> "KDV orani %18",
                     metadata |-> [source |-> "vergi.pdf", chunk_index |-> 0,
                                   page_number |-> 5, _id |-> 1]], 90),
      reranked_result([id |-> 0, text |-> "Amortisman suresi", score |-> 95,
                       meta |-> format_result([page_content |-> "Amortisman suresi",
                                               metadata |-> [_id |-> 2]], 70)]),
      [source |-> "test.pdf", page_number |-> 0, text |-> "Test content"],
      [text |-> "Fatura kesim tarihi", score |-> 80] }

ResultLists == UNION {[1..n -> SampleResults] : n \in 0..MaxResults}

InitContext ==
    /\ points = <<>>
    /\ vector_store = "VectorStore"
    /\ _reranker = None
    /\ pc = "idle"
    /\ frame = NoFrame
    /\ ret = NoRet
    /\ fn = "none"
    /\ arg \in ResultLists
    /\ val = <<>>
    /\ InitStoreVars
    /\ InitGeneratorVars
    /\ InitSessionVars
    /\ InitSingletonVars

engine_vars == <<points, vector_store, _reranker, pc, frame, ret>>

BuildContext ==
    /\ fn = "none"
    /\ fn' = "build_context"
    /\ val' = build_context(arg)
    /\ UNCHANGED <<arg, engine_vars, store_vars, generator_vars, session_vars, singleton_vars>>

FormatSources ==
    /\ fn = "none"
    /\ fn' = "format_sources"
    /\ val' = format_sources(arg)
    /\ UNCHANGED <<arg, engine_vars, store_vars, generator_vars, session_vars, singleton_vars>>

NextContext == BuildContext \/ FormatSources

SpecContext == InitContext /\ [][NextContext]_vars

Page(r) == Get(r, "page_number", -1)

\* the number of pieces of the block of result r
BlockLen(r) == IF Page(r) > 0 THEN 8 ELSE 6

RECURSIVE BlockStart(_, _)
\* the number of pieces before block i of the context of results
BlockStart(results, i) ==
    IF i = 1 THEN 0
    ELSE BlockStart(results, i - 1) + BlockLen(results[i - 1]) + 1

\* C8: build_context returns the "no context" sentinel exactly when the
\* result list is empty; otherwise one labeled block per result, in input
\* order, block i describing results[i-1] (its number, source and text), the
\* page shown if and only if page_number > 0, the blocks joined by the
\* separator, no result dropped or deduplicated.
C8_BuildContext ==
    fn = "build_context" =>
        /\ (val = <<"No context found.">>) <=> (Len(arg) = 0)
        /\ Len(arg) > 0 =>
              /\ Len(val) = BlockStart(arg, Len(arg)) + BlockLen(arg[Len(arg)])
              /\ \A i \in 1..Len(arg) :
                    LET at == BlockStart(arg, i)
                        last == at + BlockLen(arg[i])
                    IN  /\ val[at + 1] = "[Kaynak "
                        /\ val[at + 2] = ToString(i)
                        /\ val[at + 3] = ": "
                        /\ Has(arg[i], "source") => val[at + 4] = arg[i].source
                        /\ Has(arg[i], "text") => val[last] = arg[i].text
                        /\ val[last - 1] = "]\n"
                        /\ (\E k \in at + 1..last : val[k] = ", Sayfa ") <=> Page(arg[i]) > 0
                        /\ Page(arg[i]) > 0 =>
                              /\ val[at + 5] = ", Sayfa "
                              /\ val[at + 6] = ToString(Page(arg[i]))
                        /\ i < Len(arg) => val[last + 1] = "\n\n---\n\n"

\* three results, the first and the last the same result with a page, the
\* second with page 0
C8_Witness ==
    fn = "build_context" /\ Len(arg) = 3 /\ arg[1] = arg[3]
        /\ Page(arg[1]) > 0 /\ Page(arg[2]) = 0

\* C9: format_sources maps a list of n results to n citation records in the
\* same order, record i with index i and the source, page_number, text and
\* score of results[i-1]; original_score is the result's original_score when
\* it has one and its score otherwise; the empty list maps to the empty list.
C9_FormatSources ==
    fn = "format_sources" =>
        /\ Len(val) = Len(arg)
        /\ Len(arg) = 0 => val = <<>>
        /\ \A i \in 1..Len(arg) :
              /\ DOMAIN val[i]
                    = {"index", "source", "page_number", "text", "score", "original_score"}
              /\ val[i].index = i
              /\ \A k \in {"source", "page_number", "text", "score"} :
                    Has(arg[i], k) => val[i][k] = arg[i][k]
              /\ Has(arg[i], "original_score")
                    => val[i].original_score = arg[i].original_score
              /\ ~Has(arg[i], "original_score")
                    => val[i].original_score = val[i].score

\* a reranked result behind a result that has a score and no original_score
C9_Witness ==
    fn = "format_sources" /\ Len(arg) >= 2
        /\ Has(arg[1], "score") /\ ~Has(arg[1], "original_score")
        /\ Has(arg[2], "original_score") /\ arg[2].original_score # arg[2].score

----------------------------------------------------------------------------
(* _format_chat_history on histories: SpecHistory *)

MaxTurns == 2       \* longest history given to _format_chat_history

\* a text of n characters, no two neighbours alike
Text(n) == [i \in 1..n |-> ToString(i % 10)]

SampleContents ==
    { Text(3), Text(HistoryContentLimit), Text(HistoryContentLimit + 1),
      <<"a", "\n", "b">> }

SampleTurns == [role : {"user", "assistant", "system"}, content : SampleContents]

Histories == UNION {[1..n -> SampleTurns] : n \in 0..MaxTurns}

InitHistory ==
    /\ points = <<>>
    /\ vector_store = "VectorStore"
    /\ _reranker = None
    /\ pc = "idle"
    /\ frame = NoFrame
    /\ ret = NoRet
    /\ fn = "none"
    /\ arg \in Histories
    /\ val = <<>>
    /\ InitStoreVars
    /\ InitGeneratorVars
    /\ InitSessionVars
    /\ InitSingletonVars

FormatChatHistory ==
    /\ fn = "none"
    /\ fn' = "_format_chat_history"
    /\ val' = _format_chat_history(arg)
    /\ UNCHANGED <<arg, engine_vars, store_vars, generator_vars, session_vars, singleton_vars>>

NextHistory == FormatChatHistory

SpecHistory == InitHistory /\ [][NextHistory]_vars

\* the number of characters of turn i that are rendered
Kept(msg) == Min(HistoryContentLimit, Len(msg.content))

RECURSIVE LineStart(_, _)
\* the number of pieces before line i of the rendered history
LineStart(history, i) ==
    IF i = 1 THEN 0
    ELSE LineStart(history, i - 1) + 1 + Kept(history[i - 1]) + 1

\* C10: _format_chat_history renders a history of n >= 1 turns as n
\* newline-joined lines in original order, line i being "User: " (role
\* "user") or "Assistant: " (any other role) followed by the first 500
\* characters of turn i's content, a hard cut; the empty history is rendered
\* as the "no history" sentinel.
C10_FormatChatHistory ==
    fn = "_format_chat_history" =>
        /\ Len(arg) = 0 => val = <<"No conversation history yet.">>
        /\ Len(arg) > 0 =>
              /\ Len(val) = LineStart(arg, Len(arg)) + 1 + Kept(arg[Len(arg)])
              /\ \A i \in 1..Len(arg) :
                    LET at == LineStart(arg, i)
                    IN  /\ val[at + 1]
                              = (IF arg[i].role = "user" THEN "User: " ELSE "Assistant: ")
                        /\ \A k \in 1..Kept(arg[i]) : val[at + 1 + k] = arg[i].content[k]
                        /\ i < Len(arg) => val[at + 1 + Kept(arg[i]) + 1] = "\n"

\* two turns, the first longer than 500 characters, the second of a role
\* that is neither user nor assistant
C10_Witness ==
    fn = "_format_chat_history" /\ Len(arg) = 2
        /\ Len(arg[1].content) > HistoryContentLimit
        /\ arg[2].role = "system"

----------------------------------------------------------------------------
(* VectorStore over its Qdrant collection: SpecStore *)

\* the engine and the pure-function variables, unused
InitEngineVars ==
    /\ _reranker = None
    /\ pc = "idle"
    /\ frame = NoFrame
    /\ ret = NoRet

InitPureVars ==
    /\ fn = "none"
    /\ arg = <<>>
    /\ val = <<>>

\* The client has opened its storage, no VectorStore is constructed yet.  In
\* disk mode the storage holds what earlier runs left: nothing, another
\* collection, or the collection with or without records.
InitStore ==
    /\ \/ /\ collections \in {{}, {[name |-> "other", vectors_config |-> vectors_config]}}
          /\ points = <<>>
       \/ /\ collections = {[name |-> COLLECTION_NAME, vectors_config |-> vectors_config]}
          /\ points \in {<<>>} \cup {add_documents(collections, <<>>, batch, FALSE).points :
                                          batch \in Batches}
    /\ creates = 0
    /\ store_ret = NoStoreRet
    /\ vector_store = None
    /\ InitEngineVars
    /\ InitPureVars
    /\ InitGeneratorVars
    /\ InitSessionVars
    /\ InitSingletonVars

store_unused == <<_reranker, pc, frame, ret, pure_vars, generator_vars, session_vars, singleton_vars>>

\* VectorStore.__init__: _ensure_collection_exists, then the QdrantVectorStore
VectorStoreInit(env) ==
    LET e == _ensure_collection_exists(collections, points, env)
        raised == e.raised \/ env.store_raises
    IN  /\ collections' = e.collections
        /\ points' = e.points
        /\ creates' = IF e.created THEN creates + 1 ELSE creates
        /\ vector_store' = IF raised THEN vector_store ELSE "VectorStore"
        /\ store_ret' = [op |-> "__init__", env |-> env, created |-> e.created,
                         ensure_raised |-> e.raised, raised |-> raised]
        /\ UNCHANGED store_unused

\* VectorStore.add_documents
AddDocumentsToStore(batch, raises) ==
    /\ vector_store = "VectorStore"
    /\ Len(points) + Len(batch.texts) <= MaxPoints
    /\ LET a == add_documents(collections, points, batch, raises)
       IN  /\ points' = a.points
           /\ store_ret' = [op |-> "add_documents", texts |-> batch.texts, ids |-> a.ids,
                            raised |-> a.raised]
    /\ UNCHANGED <<collections, creates, vector_store, store_unused>>

\* VectorStore.search
Search(query, top_k, index) ==
    /\ vector_store = "VectorStore"
    /\ LET r == store_search(vector_store, points, index, top_k)
       IN  store_ret' = [op |-> "search", query |-> query, top_k |-> top_k, index |-> index,
                         results |-> r.results, raised |-> r.raised]
    /\ UNCHANGED <<collections, points, creates, vector_store, store_unused>>

\* VectorStore.get_collection_stats
GetCollectionStats(raises) ==
    /\ vector_store = "VectorStore"
    /\ store_ret' = [op |-> "get_collection_stats",
                     stats |-> get_collection_stats(collections, points, raises),
                     raised |-> FALSE]
    /\ UNCHANGED <<collections, points, creates, vector_store, store_unused>>

\* VectorStore.clear_collection
ClearCollection(env) ==
    /\ vector_store = "VectorStore"
    /\ LET c == clear_collection(collections, points, env)
       IN  /\ collections' = c.collections
           /\ points' = c.points
           /\ creates' = IF env.delete_raises THEN creates
                         ELSE IF c.created THEN 1 ELSE 0
           /\ store_ret' = [op |-> "clear_collection", env |-> env, before |-> Len(points),
                            created |-> c.created, raised |-> c.raised]
    /\ UNCHANGED <<vector_store, store_unused>>

NextStore ==
    \/ \E env \in InitOutcomes : VectorStoreInit(env)
    \/ \E batch \in Batches, raises \in BOOLEAN : AddDocumentsToStore(batch, raises)
    \/ /\ vector_store = "VectorStore"
       /\ \E query \in Queries, top_k \in 1..MaxK :
             \E index \in CollectionIndexOutcomes(collections, points) :
                Search(query, top_k, index)
    \/ \E raises \in BOOLEAN : GetCollectionStats(raises)
    \/ \E env \in ClearOutcomes : ClearCollection(env)

SpecStore == InitStore /\ [][NextStore]_vars

----------------------------------------------------------------------------
(* Claims about the VectorStore, checked under SpecStore *)

Exists(cols) == COLLECTION_NAME \in collection_names(cols)

\* C16: _ensure_collection_exists creates the collection, with dimension 384
\* and cosine distance, only when no collection of that name exists: a call
\* that finds the collection leaves the collections and the records as they
\* are and creates nothing, a call that creates found none, no second create
\* is ever issued for a collection that exists, and the method raises exactly
\* when the existence check or the create raised.
C16_EnsureIdempotent ==
    [][store_ret'.op = "__init__" =>
        /\ Exists(collections) =>
              /\ collections' = collections
              /\ points' = points
              /\ ~store_ret'.created
        /\ store_ret'.created =>
              /\ ~Exists(collections)
              /\ collections' = collections \cup
                    {[name |-> COLLECTION_NAME,
                      vectors_config |-> [size |-> 384, distance |-> "Cosine"]]}
        /\ store_ret'.ensure_raised <=>
              \/ store_ret'.env.check_raises
              \/ ~Exists(collections) /\ store_ret'.env.create_raises
        /\ store_ret'.ensure_raised => collections' = collections /\ points' = points
        /\ creates' <= 1]_vars

\* a second construction finds the collection the first one created, with
\* records in it, and creates nothing
C16_Witness ==
    /\ store_ret.op = "__init__"
    /\ ~store_ret.created
    /\ ~store_ret.raised
    /\ creates = 1
    /\ Len(points) > 0

\* C17: after a clear_collection that succeeded, whatever was added before,
\* get_collection_stats reports zero vectors and zero points, the collection
\* exists under its name with dimension 384 and cosine distance, every search
\* returns the empty list, and a further successful clear_collection leaves
\* this state as it is.
C17_ClearedCollection ==
    (store_ret.op = "clear_collection" /\ ~store_ret.raised) =>
        /\ get_collection_stats(collections, points, FALSE).vectors_count = 0
        /\ get_collection_stats(collections, points, FALSE).points_count = 0
        /\ get_collection_stats(collections, points, FALSE).name = COLLECTION_NAME
        /\ [name |-> COLLECTION_NAME,
            vectors_config |-> [size |-> 384, distance |-> "Cosine"]] \in collections
        /\ \A index \in CollectionIndexOutcomes(collections, points), top_k \in 1..MaxK :
              store_search(vector_store, points, index, top_k).results = <<>>
        /\ \A env \in ClearOutcomes :
              LET c == clear_collection(collections, points, env)
              IN  ~c.raised => c.collections = collections /\ c.points = points

\* a collection that held records has been cleared
C17_Witness ==
    /\ store_ret.op = "clear_collection"
    /\ ~store_ret.raised
    /\ store_ret.before > 0

\* C18: search never raises; it returns the empty list when the collection
\* is empty and when the query of the index fails; otherwise it returns one
\* result per hit of the index, in the order of the index (similarity
\* descending), at most top_k of them.
C18_SearchNeverRaises ==
    store_ret.op = "search" =>
        /\ ~store_ret.raised
        /\ (store_ret.index.fails \/ Len(points) = 0) => store_ret.results = <<>>
        /\ ~store_ret.index.fails =>
              LET hits == similarity_search_with_score(points, store_ret.index.sims,
                                                       store_ret.top_k)
                  results == store_ret.results
              IN  /\ Len(results) = Len(hits)
                  /\ Len(results) = Min(store_ret.top_k, Len(points))
                  /\ \A i \in 1..Len(results) :
                        /\ results[i].text = hits[i].doc.page_content
                        /\ results[i].score = hits[i].score
                        /\ results[i].id = hits[i].doc.metadata["_id"]
                  /\ \A i \in 1..(Len(results) - 1) :
                        results[i].score >= results[i + 1].score

\* a search whose index query failed over a collection with records, the
\* empty list returned
C18_Witness ==
    /\ store_ret.op = "search"
    /\ store_ret.index.fails
    /\ Len(points) > 1
    /\ store_ret.results = <<>>

----------------------------------------------------------------------------
(* LLMGenerator and get_llm_generator: SpecGenerator *)

MaxChunks == 2      \* most chunks a provider stream delivers

ApiKeys == {"", "gsk_key"}

Contexts == {build_context(<<>>), <<"[Kaynak: vergi.pdf, Sayfa: 5]", "\n", "KDV orani %18">>}

GeneratorTurns == [role : {"user", "assistant"}, content : {Text(3), <<"a", "\n", "b">>}]

GeneratorHistories == UNION {[1..n -> GeneratorTurns] : n \in 0..MaxTurns}

Contents == {"KDV orani %18'dir.", "Bu bilgi dokumanlarda bulunamadi."}

ProviderOutcomes ==
    {[raises |-> TRUE, choices |-> NoChoices], [raises |-> FALSE, choices |-> NoChoices]}
        \cup {[raises |-> FALSE, choices |-> c] :
                 c \in UNION {[1..n -> Contents] : n \in 1..2}}

\* delta.content of a chunk: a piece of text, or nothing
Fragments == {"KDV ", "%18", ""}

StreamOutcomes ==
    {[open_raises |-> TRUE, chunks |-> <<>>, broken |-> FALSE]}
        \cup {[open_raises |-> FALSE, chunks |-> c, broken |-> b] :
                 c \in UNION {[1..n -> Fragments] : n \in 0..MaxChunks},
                 b \in BOOLEAN}

\* llm_generator imported, with or without a key in the environment
InitGenerator ==
    /\ GROQ_API_KEY \in ApiKeys
    /\ _llm_generator_instance = None
    /\ points = <<>>
    /\ vector_store = "VectorStore"
    /\ InitEngineVars
    /\ InitPureVars
    /\ InitStoreVars
    /\ InitSessionVars
    /\ InitSingletonVars

generator_unused == <<engine_vars, store_vars, session_vars, singleton_vars>>

\* LLMGenerator(api_key=...)
Construct(api_key, groq_raises) ==
    /\ fn' = "LLMGenerator"
    /\ arg' = [api_key |-> api_key]
    /\ val' = LLMGenerator_init(api_key, groq_raises)
    /\ UNCHANGED <<generator_vars, generator_unused>>

\* get_llm_generator()
GetLLMGenerator(groq_raises) ==
    LET g == get_llm_generator(_llm_generator_instance, GROQ_API_KEY, groq_raises)
    IN  /\ fn' = "get_llm_generator"
        /\ arg' = [again |-> fn = "get_llm_generator"]
        /\ val' = [raised |-> g.raised, error |-> g.error,
                   client_created |-> g.client_created]
        /\ _llm_generator_instance' = g.instance
        /\ UNCHANGED <<GROQ_API_KEY, generator_unused>>

\* a generate or generate_stream call is under way or its value not yet taken
Generating == fn \in {"generate", "generate_stream"}

\* generate on the generator get_llm_generator returned
Generate(question, context, chat_history, provider) ==
    /\ _llm_generator_instance # None
    /\ ~Generating
    /\ fn' = "generate"
    /\ arg' = [question |-> question, context |-> context,
               chat_history |-> chat_history, provider |-> provider]
    /\ val' = generate(question, context, chat_history, provider)
    /\ UNCHANGED <<generator_vars, generator_unused>>

\* generate_stream on the generator get_llm_generator returned, read to its end
GenerateStream(question, context, chat_history, provider) ==
    /\ _llm_generator_instance # None
    /\ ~Generating
    /\ fn' = "generate_stream"
    /\ arg' = [question |-> question, context |-> context,
               chat_history |-> chat_history, provider |-> provider]
    /\ val' = generate_stream(question, context, chat_history, provider)
    /\ UNCHANGED <<generator_vars, generator_unused>>

\* the caller takes the answer, or has read the stream to its end
TakeAnswer ==
    /\ Generating
    /\ fn' = "none"
    /\ arg' = <<>>
    /\ val' = <<>>
    /\ UNCHANGED <<generator_vars, generator_unused>>

NextGenerator ==
    \/ \E api_key \in ApiKeys, groq_raises \in BOOLEAN : Construct(api_key, groq_raises)
    \/ \E groq_raises \in BOOLEAN : GetLLMGenerator(groq_raises)
    \/ /\ _llm_generator_instance # None /\ ~Generating
       /\ \E question \in Queries, context \in Contexts,
             chat_history \in GeneratorHistories, provider \in ProviderOutcomes :
             Generate(question, context, chat_history, provider)
    \/ TakeAnswer
    \/ /\ _llm_generator_instance # None /\ ~Generating
       /\ \E question \in Queries, context \in Contexts,
             chat_history \in GeneratorHistories, provider \in StreamOutcomes :
             GenerateStream(question, context, chat_history, provider)

SpecGenerator == InitGenerator /\ [][NextGenerator]_vars

----------------------------------------------------------------------------
(* Claims about the generator, checked under SpecGenerator *)

ProviderFailed(provider) == provider.raises \/ Len(provider.choices) = 0

\* C12: whenever the provider call raises, or reading the response raises
\* (no first choice), generate returns the fixed failure message and does not
\* raise; otherwise it returns the content of the first choice as it is.
C12_GenerateNeverRaises ==
    fn = "generate" =>
        /\ ~val.raised
        /\ ProviderFailed(arg.provider) =>
              val.value = "Connection error, please try again."
        /\ ~ProviderFailed(arg.provider) => val.value = arg.provider.choices[1]

\* the provider call raised and generate returned the failure message
C12_Witness ==
    /\ fn = "generate"
    /\ arg.provider.raises
    /\ ~val.raised
    /\ val.value = "Connection error, please try again."

StreamFailed(provider) == provider.open_raises \/ provider.broken

\* C13: whenever the provider fails during generate_stream, at the opening of
\* the stream or after chunks were delivered, the fragments yielded are
\* exactly one: the failure message; generate_stream does not raise; without
\* a failure it yields the non-empty content fragments in arrival order.
C13_SoleFailureFragment ==
    fn = "generate_stream" =>
        /\ ~val.raised
        /\ StreamFailed(arg.provider) =>
              val.yielded = <<"Connection error, please try again.">>
        /\ ~StreamFailed(arg.provider) =>
              val.yielded = content_fragments(arg.provider.chunks)

\* C14: LLMGenerator with an empty key raises ValueError and creates no
\* provider client; a get_llm_generator call that raised leaves no generator
\* in the module; and while the key is missing every get_llm_generator call,
\* the first and every later one, raises that ValueError and the module
\* holds no generator.
C14_NoPartialGenerator ==
    /\ (fn = "LLMGenerator" /\ arg.api_key = "") =>
          /\ val.raised
          /\ val.error = "ValueError"
          /\ ~val.client_created
          /\ val.generator = None
    /\ (fn = "get_llm_generator" /\ val.raised) =>
          /\ _llm_generator_instance = None
          /\ ~val.client_created
    /\ GROQ_API_KEY = "" =>
          /\ _llm_generator_instance = None
          /\ fn = "get_llm_generator" =>
                /\ val.raised
                /\ val.error = "ValueError"

\* with the key missing, a get_llm_generator call that follows another one
\* has failed with the ValueError
C14_Witness ==
    /\ GROQ_API_KEY = ""
    /\ fn = "get_llm_generator"
    /\ arg.again
    /\ val.raised
    /\ val.error = "ValueError"
    /\ _llm_generator_instance = None

----------------------------------------------------------------------------
(* app.py *)

TOP_K_INITIAL == 25
TOP_K_RERANKED == 5
HistoryWindow == 6      \* st.session_state.chat_history[-6:]

\* a text held as one piece
text(s) == <<s>>

\* s[-n:] for n > 0
LastN(s, n) == SubSeq(s, IF Len(s) > n THEN Len(s) - n + 1 ELSE 1, Len(s))

\* Faulty variant of window: the whole history is passed on
window_all(chat_history) ==
    [i \in 1..Len(chat_history) |->
        [role |-> chat_history[i].role, content |-> chat_history[i].content]]

\* the chat_history list generate_response builds for the generator
window(chat_history) ==
    LET last == LastN(chat_history, HistoryWindow)
    IN  [i \in 1..Len(last) |-> [role |-> last[i].role, content |-> last[i].content]]

\* get_vector_store: the instance kept by vector_store after the call, and
\* what VectorStore() did to the client's collections when it was constructed
get_vector_store(instance, cols, pts, env) ==
    IF instance = None
    THEN LET e == _ensure_collection_exists(cols, pts, env)
             raised == e.raised \/ env.store_raises
         IN  [instance |-> IF raised THEN None ELSE "VectorStore",
              collections |-> e.collections, points |-> e.points,
              created |-> e.created, raised |-> raised]
    ELSE [instance |-> instance, collections |-> cols, points |-> pts,
          created |-> FALSE, raised |-> FALSE]

\* RetrievalEngine.retrieve in one piece: what it returns and the reranker
\* the engine holds afterwards
retrieve(store, pts, reranker, query, use_reranking, top_k_initial, top_k_final, env) ==
    LET debug_info == debug_info_init(query, use_reranking, top_k_initial, top_k_final)
        s == store_search(store, pts, env.index, top_k_initial)
    IN  IF s.raised
        THEN [ret |-> except_handler(debug_info, s.error), _reranker |-> reranker]
        ELSE LET initial_results == s.results
                 debug1 == debug_info_stage1(debug_info, initial_results)
             IN  IF skip_reranking(use_reranking, initial_results)
                 THEN [ret |-> vector_only(initial_results, top_k_final, debug1),
                       _reranker |-> reranker]
                 ELSE IF reranker = None /\ env.load_raises
                 THEN [ret |-> rerank_failed(initial_results, top_k_final, debug1,
                                             "Ranker error"),
                       _reranker |-> None]
                 ELSE IF env.rerank_raises
                 THEN [ret |-> rerank_failed(initial_results, top_k_final, debug1,
                                             "Rerank error"),
                       _reranker |-> "Ranker"]
                 ELSE [ret |-> reranked_return(
                                  rerank(passages(initial_results),
                                         [i \in 1..Len(initial_results) |->
                                             IF env.reverse
                                             THEN Len(initial_results) + 1 - i ELSE i],
                                         [i \in 1..Len(initial_results) |-> env.score]),
                                  top_k_final, debug1),
                       _reranker |-> "Ranker"]

\* Faulty variant of generate_response: with nothing retrieved the generator is
\* not asked and the fallback message is returned
generate_response_skip_empty(chat_history, cols, pts, reranker, instance, api_key, query, use_reranking, env) ==
    LET r == retrieve("VectorStore", pts, reranker, query, use_reranking,
                      TOP_K_INITIAL, TOP_K_RERANKED, env)
        results == r.ret.results
        context == build_context(results)
        sources == format_sources(results)
        passed == window(chat_history)
        g == get_llm_generator(instance, api_key, env.groq_raises)
    IN  IF g.raised \/ Len(results) = 0
        THEN [response |-> "Baglanti hatasi, lutfen tekrar deneyin.",
              sources |-> <<>>, debug_info |-> [error |-> g.error],
              retrieved |-> TRUE, generator_called |-> FALSE, passed |-> <<>>,
              history_str |-> <<>>, results |-> results,
              _reranker |-> r._reranker, instance |-> g.instance]
        ELSE LET a == generate(query, context, passed, env.provider)
             IN  [response |-> a.value, sources |-> sources,
                  debug_info |-> r.ret.debug_info,
                  retrieved |-> TRUE, generator_called |-> TRUE, passed |-> passed,
                  history_str |-> a.prompt.chat_history, results |-> results,
                  prompt |-> a.prompt,
                  _reranker |-> r._reranker, instance |-> g.instance]

\* generate_response: the triple it returns, the history it passed to the
\* generator (when it got as far as calling it), and the singletons afterwards
generate_response(chat_history, cols, pts, reranker, instance, api_key, query, use_reranking, env) ==
    LET r == retrieve("VectorStore", pts, reranker, query, use_reranking,
                      TOP_K_INITIAL, TOP_K_RERANKED, env)
        results == r.ret.results
        context == build_context(results)
        sources == format_sources(results)
        passed == window(chat_history)
        g == get_llm_generator(instance, api_key, env.groq_raises)
    IN  IF g.raised
        THEN [response |-> "Baglanti hatasi, lutfen tekrar deneyin.",
              sources |-> <<>>, debug_info |-> [error |-> g.error],
              retrieved |-> TRUE, generator_called |-> FALSE, passed |-> <<>>,
              history_str |-> <<>>, results |-> results,
              _reranker |-> r._reranker, instance |-> g.instance]
        ELSE LET a == generate(query, context, passed, env.provider)
             IN  [response |-> a.value, sources |-> sources,
                  debug_info |-> r.ret.debug_info,
                  retrieved |-> TRUE, generator_called |-> TRUE, passed |-> passed,
                  history_str |-> a.prompt.chat_history, results |-> results,
                  prompt |-> a.prompt,
                  _reranker |-> r._reranker, instance |-> g.instance]

\* chunk_text: the chunks the splitter made of one page, numbered from 0
chunk_text(chunks, source, page_number) ==
    [i \in 1..Len(chunks) |->
        [text |-> chunks[i], source |-> source, chunk_index |-> i - 1,
         page_number |-> page_number]]

RECURSIVE all_chunks(_, _)
\* the chunks of all pages of a file, page after page
all_chunks(pages_data, source) ==
    IF Len(pages_data) = 0 THEN <<>>
    ELSE chunk_text(Head(pages_data).chunks, source, Head(pages_data).page_number)
           \o all_chunks(Tail(pages_data), source)

\* What can go wrong with one file: nothing, pdfplumber raises (caught in
\* extract_text_from_pdf, no page is returned), the splitter raises, or
\* add_documents raises (the embedding or the store)
FailKinds == {"none", "extract", "chunk_text", "add_documents"}

\* one round of the loop of process_uploaded_files: the records afterwards,
\* the number of chunks counted for the file, whether the except branch was
\* taken and whether add_documents went through
process_file(cols, pts, pdf_file, fails) ==
    LET pages_data == IF fails = "extract" THEN <<>> ELSE pdf_file.pages_data
        chunks == all_chunks(pages_data, pdf_file.name)
        batch == [texts |-> [i \in 1..Len(chunks) |-> chunks[i].text],
                  has_metadatas |-> TRUE,
                  metadatas |-> [i \in 1..Len(chunks) |->
                                    [source |-> chunks[i].source,
                                     chunk_index |-> chunks[i].chunk_index,
                                     page_number |-> chunks[i].page_number]]]
        a == add_documents(cols, pts, batch, fails = "add_documents")
        skipped == [points |-> pts, chunks |-> 0, failed |-> FALSE, ingested |-> FALSE]
    IN  IF Len(pages_data) = 0 THEN skipped
        ELSE IF fails = "chunk_text" THEN [skipped EXCEPT !.failed = TRUE]
        ELSE IF Len(chunks) = 0 THEN skipped
        ELSE IF a.raised THEN [skipped EXCEPT !.failed = TRUE]
        ELSE [points |-> a.points, chunks |-> Len(chunks), failed |-> FALSE,
              ingested |-> TRUE]

RECURSIVE process_uploaded_files_break(_, _, _, _)
\* Faulty variant of process_uploaded_files: the loop ends at the first file
\* that fails
process_uploaded_files_break(cols, pts, uploaded_files, fails) ==
    IF Len(uploaded_files) = 0
    THEN [points |-> pts, total_chunks |-> 0, failed |-> 0, ingested |-> 0]
    ELSE LET f == process_file(cols, pts, Head(uploaded_files), Head(fails))
             rest == IF f.failed
                     THEN [points |-> f.points, total_chunks |-> 0, failed |-> 0,
                           ingested |-> 0]
                     ELSE process_uploaded_files_break(cols, f.points,
                                                       Tail(uploaded_files), Tail(fails))
         IN  [points |-> rest.points,
              total_chunks |-> f.chunks + rest.total_chunks,
              failed |-> (IF f.failed THEN 1 ELSE 0) + rest.failed,
              ingested |-> (IF f.ingested THEN 1 ELSE 0) + rest.ingested]

RECURSIVE process_uploaded_files(_, _, _, _)
\* process_uploaded_files once the store is at hand: the records afterwards,
\* total_chunks, the number of files that took the except branch and the
\* number of files whose chunks were added
process_uploaded_files(cols, pts, uploaded_files, fails) ==
    IF Len(uploaded_files) = 0
    THEN [points |-> pts, total_chunks |-> 0, failed |-> 0, ingested |-> 0]
    ELSE LET f == process_file(cols, pts, Head(uploaded_files), Head(fails))
             rest == process_uploaded_files(cols, f.points, Tail(uploaded_files),
                                            Tail(fails))
         IN  [points |-> rest.points,
              total_chunks |-> f.chunks + rest.total_chunks,
              failed |-> (IF f.failed THEN 1 ELSE 0) + rest.failed,
              ingested |-> (IF f.ingested THEN 1 ELSE 0) + rest.ingested]

----------------------------------------------------------------------------
(* The application, one session: SpecApp *)

MaxAsked == 1       \* most questions asked between the start and a reset
MaxFiles == 2       \* most files uploaded at once

\* Uploaded PDFs as extract_text_from_pdf and the splitter see them: the
\* pages that hold text, each with the chunks the splitter makes of it
Files ==
    { [name |-> "vergi.pdf",
       pages_data |-> << [page_number |-> 1, chunks |-> <<"KDV orani %18">>],
                         [page_number |-> 2, chunks |-> <<"Fatura kesim tarihi">>] >>],
      [name |-> "amortisman.pdf",
       pages_data |-> << [page_number |-> 1, chunks |-> <<"Amortisman suresi">>] >>],
      [name |-> "taranmis.pdf", pages_data |-> <<>>] }

\* the files picked in the uploader when the process button is pressed: up to
\* MaxFiles files, each picked once, in any order
Uploads ==
    {u \in UNION {[1..n -> Files] : n \in 1..MaxFiles} :
        \A i, j \in 1..Len(u) : i # j => u[i] # u[j]}

RECURSIVE chunks_of(_)
chunks_of(uploaded_files) ==
    IF Len(uploaded_files) = 0 THEN 0
    ELSE Len(all_chunks(Head(uploaded_files).pages_data, "")) + chunks_of(Tail(uploaded_files))

Prompts == {text("KDV orani nedir?")}

\* What the index, the reranker, the Groq client and the provider do during
\* one generate_response
ResponseOutcomes(cols, pts) ==
    [index : {[fails |-> TRUE, sims |-> <<>>]} \cup
             (IF COLLECTION_NAME \in collection_names(cols)
              THEN {[fails |-> FALSE, sims |-> [i \in 1..Len(pts) |-> 90]]}
              ELSE {}),
     load_raises : BOOLEAN, rerank_raises : {FALSE},
     reverse : {TRUE}, score : {95},
     groq_raises : {FALSE},
     provider : {[raises |-> TRUE, choices |-> NoChoices],
                 [raises |-> FALSE, choices |-> <<"KDV orani %18'dir.">>]}]

\* The application started: modules imported, init_session_state run, no
\* singleton constructed, the Qdrant storage empty
InitApp ==
    /\ GROQ_API_KEY \in ApiKeys
    /\ _llm_generator_instance = None
    /\ vector_store = None
    /\ collections = {}
    /\ points = <<>>
    /\ creates = 0
    /\ store_ret = NoStoreRet
    /\ InitEngineVars
    /\ InitPureVars
    /\ InitSessionVars
    /\ InitSingletonVars

app_unused == <<pc, frame, ret, pure_vars, store_ret, singleton_vars>>

\* render_sidebar, the process button: process_uploaded_files, then the
\* session is marked as holding documents
ProcessFiles(uploaded_files, env, fails) ==
    /\ Len(points) + chunks_of(uploaded_files) <= MaxPoints
    /\ LET v == get_vector_store(vector_store, collections, points, env)
       IN  /\ vector_store' = v.instance
           /\ collections' = v.collections
           /\ creates' = IF v.created THEN creates + 1 ELSE creates
           /\ IF v.raised
              THEN /\ points' = v.points
                   /\ session' = session
                   /\ resp' = [op |-> "process", raised |-> TRUE]
              ELSE LET p == process_uploaded_files(v.collections, v.points,
                                                   uploaded_files, fails)
                   IN  /\ points' = p.points
                       /\ session' = [session EXCEPT !.documents_processed = TRUE,
                                                     !.chunk_count = p.total_chunks]
                       /\ resp' = [op |-> "process", raised |-> FALSE,
                                   uploaded_files |-> uploaded_files,
                                   fails |-> fails,
                                   reported |-> Len(uploaded_files),
                                   failed |-> p.failed,
                                   ingested |-> p.ingested,
                                   chunk_count |-> p.total_chunks]
    /\ UNCHANGED <<_reranker, generator_vars, app_unused>>

\* render_sidebar, the reset button
Reset(env) ==
    /\ session.documents_processed
    /\ LET c == clear_collection(collections, points, env)
       IN  /\ collections' = c.collections
           /\ points' = c.points
           /\ creates' = IF env.delete_raises THEN creates
                         ELSE IF c.created THEN 1 ELSE 0
           /\ session' = IF c.raised THEN session
                         ELSE [session EXCEPT !.documents_processed = FALSE,
                                              !.chunk_count = 0,
                                              !.chat_history = <<>>]
           /\ resp' = [op |-> "reset", failed |-> c.raised,
                       records_deleted |-> Len(points) - Len(c.points),
                       turns_before |-> Len(session.chat_history)]
    /\ UNCHANGED <<vector_store, _reranker, generator_vars, app_unused>>

\* Faulty variant of append_user_turn: the question is not in the history
\* when generate_response runs
append_user_turn_later(chat_history, prompt) == chat_history

\* render_chat on a prompt, before the answer is generated: the user turn is
\* appended to the history
append_user_turn(chat_history, prompt) ==
    Append(chat_history, [role |-> "user", content |-> prompt])

\* Faulty variant of append_assistant_turn: no turn is recorded for an answer
\* that has no sources
append_assistant_turn_sourced(chat_history, response, sources) ==
    IF Len(sources) = 0 THEN chat_history
    ELSE Append(chat_history, [role |-> "assistant", content |-> text(response),
                               sources |-> sources])

\* render_chat after generate_response returned: the assistant turn is
\* appended to the history
append_assistant_turn(chat_history, response, sources) ==
    Append(chat_history, [role |-> "assistant", content |-> text(response),
                          sources |-> sources])

\* render_chat on a prompt: the user turn, generate_response, the assistant
\* turn
Ask(prompt, use_reranking, env) ==
    /\ session.documents_processed
    /\ LET asked == append_user_turn(session.chat_history, prompt)
           g == generate_response(asked, collections, points, _reranker,
                                  _llm_generator_instance, GROQ_API_KEY,
                                  prompt, use_reranking, env)
       IN  /\ session' = [session EXCEPT !.chat_history =
                            append_assistant_turn(asked, g.response, g.sources)]
           /\ _reranker' = g._reranker
           /\ _llm_generator_instance' = g.instance
           /\ resp' = [g EXCEPT !._reranker = "", !.instance = ""]
                         @@ [op |-> "query", question |-> prompt]
    /\ UNCHANGED <<points, vector_store, collections, creates, GROQ_API_KEY, app_unused>>

\* What the client does when get_vector_store is called: it matters only
\* when the VectorStore is yet to be constructed
StoreOutcomes(instance) ==
    IF instance = None THEN InitOutcomes
    ELSE {[check_raises |-> FALSE, create_raises |-> FALSE, store_raises |-> FALSE]}

NextApp ==
    \/ \E uploaded_files \in Uploads, env \in StoreOutcomes(vector_store) :
          \E fails \in [1..Len(uploaded_files) -> {"none", "add_documents"}] :
             ProcessFiles(uploaded_files, env, fails)
    \/ /\ session.documents_processed
       /\ \E env \in ClearOutcomes : Reset(env)
    \/ /\ session.documents_processed
       /\ Len(session.chat_history) < 2 * MaxAsked
       /\ \E prompt \in Prompts, use_reranking \in BOOLEAN,
             env \in ResponseOutcomes(collections, points) :
             Ask(prompt, use_reranking, env)

SpecApp == InitApp /\ [][NextApp]_vars

----------------------------------------------------------------------------
(* Ingestion runs and resets of one session: SpecIngest *)

NextIngest ==
    \/ \E uploaded_files \in Uploads, env \in StoreOutcomes(vector_store) :
          \E fails \in [1..Len(uploaded_files) -> FailKinds] :
             ProcessFiles(uploaded_files, env, fails)
    \/ /\ session.documents_processed
       /\ \E env \in ClearOutcomes : Reset(env)

SpecIngest == InitApp /\ [][NextIngest]_vars

----------------------------------------------------------------------------
(* One session asking question after question: SpecSession *)

MaxQuestions == 4   \* most questions asked in the session

\* The session after vergi.pdf was processed: the state SpecApp is in after
\* ProcessFiles of that one file went through
InitSession ==
    LET own == create_collection({}, COLLECTION_NAME, vectors_config)
        vergi == CHOOSE f \in Files : f.name = "vergi.pdf"
        p == process_uploaded_files(own, <<>>, <<vergi>>, <<"none">>)
    IN  /\ GROQ_API_KEY \in ApiKeys
        /\ _llm_generator_instance = None
        /\ vector_store = "VectorStore"
        /\ collections = own
        /\ points = p.points
        /\ creates = 1
        /\ store_ret = NoStoreRet
        /\ InitEngineVars
        /\ InitPureVars
        /\ InitSingletonVars
        /\ session = [init_session_state EXCEPT !.documents_processed = TRUE,
                                                !.chunk_count = p.total_chunks]
        /\ resp = [op |-> "process", raised |-> FALSE,
                   uploaded_files |-> <<vergi>>, fails |-> <<"none">>,
                   reported |-> 1, failed |-> 0, ingested |-> 1,
                   chunk_count |-> p.total_chunks]

NextSession ==
    /\ session.documents_processed
    /\ Len(session.chat_history) < 2 * MaxQuestions
    /\ \E prompt \in Prompts, use_reranking \in BOOLEAN,
          env \in ResponseOutcomes(collections, points) :
          Ask(prompt, use_reranking, env)

SpecSession == InitSession /\ [][NextSession]_vars

----------------------------------------------------------------------------
(* Claims about the application *)

\* the session's history as generate_response found it: all turns but the
\* assistant turn appended after it returned
HistoryAtCall == SubSeq(session.chat_history, 1, Len(session.chat_history) - 1)

\* C11: whenever a query reaches the generator, the history passed to it is
\* the last min(6, n) turns of the session's n-turn history, in their order,
\* each reduced to role and content; it never holds more than 6 turns; and
\* the generator formats every turn it was passed, dropping none.
C11_HistoryWindow ==
    (resp.op = "query" /\ resp.generator_called) =>
        LET n == Len(HistoryAtCall)
            k == Min(6, n)
        IN  /\ Len(resp.passed) = k
            /\ Len(resp.passed) <= 6
            /\ \A i \in 1..k :
                  resp.passed[i] = [role |-> HistoryAtCall[n - k + i].role,
                                    content |-> HistoryAtCall[n - k + i].content]
            /\ resp.history_str = _format_chat_history(resp.passed)
            /\ Len(SelectSeq(resp.history_str, LAMBDA piece : piece = "\n")) = k - 1

\* a query asked with seven turns in the session, the oldest turn left out
C11_Witness ==
    /\ resp.op = "query"
    /\ resp.generator_called
    /\ Len(HistoryAtCall) = 7
    /\ Len(resp.passed) = 6
    /\ resp.passed[1].role = "assistant"

\* C15: with the generation credential missing the application does not
\* start: nothing is ingested and no query is processed, so the collection
\* stays without records, the session is never marked as holding documents
\* and the history stays empty.
C15_NoStartWithoutCredential ==
    GROQ_API_KEY = "" =>
        /\ resp.op \notin {"process", "query"}
        /\ points = <<>>
        /\ ~session.documents_processed
        /\ session.chat_history = <<>>

\* C20: whenever a reset has deleted the records of the collection, the
\* session holds no turn from before that reset.
C20_ResetClearsHistory ==
    (resp.op = "reset" /\ resp.records_deleted > 0) => session.chat_history = <<>>

----------------------------------------------------------------------------
(* A session in which long questions are asked too, the reranking switched
   off in the sidebar: SpecQuestion *)

MaxDialogue == 4    \* most questions asked in the session

\* a question one character longer than what a history line keeps
LongQuestion == [i \in 1..HistoryContentLimit + 1 |-> "a"]

Questions == Prompts \cup {LongQuestion}

NextQuestion ==
    /\ session.documents_processed
    /\ Len(session.chat_history) < 2 * MaxDialogue
    /\ \E prompt \in Questions, env \in ResponseOutcomes(collections, points) :
          Ask(prompt, FALSE, env)

SpecQuestion == InitSession /\ [][NextQuestion]_vars

----------------------------------------------------------------------------
(* Questions and resets of one session, with an ingestion run of one file
   after each reset: SpecChat *)

NextChat ==
    \/ /\ session.documents_processed
       /\ Len(session.chat_history) < 2 * MaxDialogue
       /\ \E prompt \in Prompts, use_reranking \in BOOLEAN,
             env \in ResponseOutcomes(collections, points) :
             Ask(prompt, use_reranking, env)
    \/ /\ session.documents_processed
       /\ \E env \in ClearOutcomes : Reset(env)
    \/ /\ ~session.documents_processed
       /\ \E pdf_file \in Files, env \in StoreOutcomes(vector_store) :
             ProcessFiles(<<pdf_file>>, env, <<"none">>)

SpecChat == InitSession /\ [][NextChat]_vars

----------------------------------------------------------------------------
(* Ingestion runs *)

\* the files of a run whose chunks went through add_documents, the collection
\* being there: nothing failed for them and they have at least one chunk
Succeeded(uploaded_files, fails) ==
    {i \in 1..Len(uploaded_files) :
        fails[i] = "none" /\ chunks_of(<<uploaded_files[i]>>) > 0}

RECURSIVE SumChunks(_, _)
\* the chunks of the files at the positions in S, added up
SumChunks(uploaded_files, S) ==
    IF S = {} THEN 0
    ELSE LET i == CHOOSE x \in S : TRUE
         IN  chunks_of(<<uploaded_files[i]>>) + SumChunks(uploaded_files, S \ {i})

\* a run of process_uploaded_files that came back
Ran == resp.op = "process" /\ ~resp.raised

\* C21: a run of process_uploaded_files that has its store comes back
\* whatever fails for single files; the total it returns is the sum of the
\* chunk counts of exactly the files whose add_documents call succeeded,
\* the collection grows by exactly those chunks, and every file whose own
\* steps succeed is ingested with all its chunks even when an earlier file
\* of the run failed.
C21_IndependentFiles ==
    [][ (resp'.op = "process" /\ ~resp'.raised) =>
          LET files == resp'.uploaded_files
              ok == IF COLLECTION_NAME \in collection_names(collections')
                    THEN Succeeded(files, resp'.fails)
                    ELSE {}
              new == SubSeq(points', Len(points) + 1, Len(points'))
          IN  /\ resp'.chunk_count = SumChunks(files, ok)
              /\ resp'.ingested = Cardinality(ok)
              /\ SubSeq(points', 1, Len(points)) = points
              /\ Len(new) = SumChunks(files, ok)
              /\ \A k \in 1..Len(new) :
                    \E i \in ok : new[k].metadata.source = files[i].name
              /\ \A i \in ok :
                    LET chunks == all_chunks(files[i].pages_data, files[i].name)
                    IN  \A c \in 1..Len(chunks) :
                           \E k \in 1..Len(new) :
                              /\ new[k].page_content = chunks[c].text
                              /\ new[k].metadata.source = chunks[c].source
                              /\ new[k].metadata.page_number = chunks[c].page_number
                              /\ new[k].metadata.chunk_index = chunks[c].chunk_index
      ]_vars

\* a run of two files in which the first file failed and the second was added
C21_Witness ==
    /\ Ran
    /\ Len(resp.uploaded_files) = 2
    /\ resp.fails[1] \in {"chunk_text", "add_documents"}
    /\ resp.failed = 1
    /\ resp.ingested = 1
    /\ resp.chunk_count > 0
    /\ Len(points) > 0

\* C22: after an ingestion run the tally shown to the user is accurate: the
\* number of files reported as processed is the number of files whose chunks
\* were added, a run in which no file was added reports no success, and the
\* session is marked as holding documents only when the collection has
\* received at least one chunk.
C22_AccurateTally ==
    Ran =>
        /\ resp.reported = resp.ingested
        /\ (resp.ingested = 0 => resp.reported = 0)
        /\ (session.documents_processed => Len(points) > 0)

\* C24: after any sequence of ingestion runs no two records of the
\* collection share (source, page_number, chunk_index), and the indices of
\* one page of one source are dense from 0.
C24_UniqueChunkIndex ==
    /\ \A i, j \in 1..Len(points) :
          (/\ points[i].metadata.source = points[j].metadata.source
           /\ points[i].metadata.page_number = points[j].metadata.page_number
           /\ points[i].metadata.chunk_index = points[j].metadata.chunk_index)
          => i = j
    /\ \A i \in 1..Len(points) :
          points[i].metadata.chunk_index > 0 =>
             \E j \in 1..Len(points) :
                /\ points[j].metadata.source = points[i].metadata.source
                /\ points[j].metadata.page_number = points[i].metadata.page_number
                /\ points[j].metadata.chunk_index = points[i].metadata.chunk_index - 1

\* C29: the chunk_count of the session is the number of records the session
\* has added to the collection since the last reset: after every ingestion
\* run it is the number of records the collection holds, and it is 0 after
\* a reset that went through.
C29_ChunkCountIsRecordCount ==
    /\ Ran => session.chunk_count = Len(points)
    /\ (resp.op = "reset" /\ ~resp.failed) => session.chunk_count = 0

----------------------------------------------------------------------------
(* Queries *)

\* a question was handled by render_chat
Asked == resp.op = "query"

\* the turn render_chat appended last
LastTurn == session.chat_history[Len(session.chat_history)]

\* C25: generate_response always returns: render_chat gets a response and a
\* source list and records them as the assistant turn.  When the generator
\* can be constructed it is invoked, with the question and with the context
\* build_context makes of the retrieved list, and the sources returned are
\* format_sources of that same list; when nothing was retrieved the context
\* is the "No context found." sentinel and the source list is empty.  When
\* the generator cannot be constructed the response is the fixed fallback
\* message, the source list is empty and the diagnostics hold only the error.
C25_GenerateResponse ==
    Asked =>
        /\ LastTurn = [role |-> "assistant", content |-> text(resp.response),
                       sources |-> resp.sources]
        /\ resp.generator_called <=> GROQ_API_KEY # ""
        /\ IF resp.generator_called
           THEN /\ resp.prompt.question = resp.question
                /\ resp.prompt.context = build_context(resp.results)
                /\ resp.sources = format_sources(resp.results)
                /\ Len(resp.sources) = Len(resp.results)
                /\ "error" \notin DOMAIN resp.debug_info \/ resp.results = <<>>
                /\ resp.results = <<>> =>
                      /\ resp.prompt.context = <<"No context found.">>
                      /\ resp.sources = <<>>
           ELSE /\ resp.response = "Baglanti hatasi, lutfen tekrar deneyin."
                /\ resp.sources = <<>>
                /\ DOMAIN resp.debug_info = {"error"}

\* a question for which the retrieval failed and the generator was asked
\* with the sentinel context
C25_Witness ==
    /\ Asked
    /\ resp.generator_called
    /\ resp.results = <<>>
    /\ "error" \in DOMAIN resp.debug_info
    /\ resp.prompt.context = <<"No context found.">>
    /\ LastTurn.sources = <<>>

\* C30: whenever the generator is invoked the history passed to it is not
\* empty and its last turn is the user turn of the current question; the
\* question is in the prompt as the question and as the last line of the
\* formatted history; the window holds at most 6 turns, so at most 5 turns
\* come before the question.
C30_QuestionLastInHistory ==
    (Asked /\ resp.generator_called) =>
        LET n == Len(resp.passed)
            h == resp.prompt.chat_history
        IN  /\ n > 0
            /\ n - 1 <= 5
            /\ resp.passed[n] = [role |-> "user", content |-> resp.question]
            /\ resp.prompt.question = resp.question
            /\ Len(h) >= 2
            /\ Len(h) > Len(resp.question)
            /\ SubSeq(h, Len(h) - Len(resp.question), Len(h))
                  = <<"User: ">> \o resp.question

\* C30 (amended): whenever the generator is invoked the history passed to
\* it is not empty and its last turn is the user turn of the current
\* question, in full; the prompt holds the question in full as the question,
\* and the last line of the formatted history is "User: " followed by the
\* first 500 characters of the question; at most 5 turns of the window come
\* before the question.
C30_QuestionLastCut ==
    (Asked /\ resp.generator_called) =>
        LET n == Len(resp.passed)
            h == resp.prompt.chat_history
            cut == Take(resp.question, HistoryContentLimit)
        IN  /\ n > 0
            /\ n - 1 <= 5
            /\ resp.passed[n] = [role |-> "user", content |-> resp.question]
            /\ resp.prompt.question = resp.question
            /\ Len(h) > Len(cut)
            /\ SubSeq(h, Len(h) - Len(cut), Len(h)) = <<"User: ">> \o cut
            /\ n > 1 => h[Len(h) - Len(cut) - 1] = "\n"

\* a long question asked with five turns of the window before it
C30_Witness ==
    /\ Asked
    /\ resp.generator_called
    /\ resp.question = LongQuestion
    /\ Len(resp.passed) = 6
    /\ resp.passed[6].role = "user"
    /\ resp.passed[5].role = "assistant"
    /\ Len(session.chat_history) > 7

\* the history alternates user, assistant and ends with an assistant turn
Alternates(chat_history) ==
    /\ Len(chat_history) % 2 = 0
    /\ \A i \in 1..Len(chat_history) :
          chat_history[i].role = IF i % 2 = 1 THEN "user" ELSE "assistant"

\* C28: between two handlers the history has even length and alternates
\* user, assistant; every handler leaves the turns it found as they are,
\* unless it is a reset that went through, which empties the history; and
\* a question, answered or failed, appends exactly the user turn of the
\* question and then one assistant turn.
C28_AppendOnly ==
    /\ []Alternates(session.chat_history)
    /\ [][ LET old == session.chat_history
               new == session'.chat_history
           IN  IF resp'.op = "query"
               THEN /\ Len(new) = Len(old) + 2
                    /\ SubSeq(new, 1, Len(old)) = old
                    /\ new[Len(old) + 1] = [role |-> "user", content |-> resp'.question]
                    /\ new[Len(old) + 2].role = "assistant"
               ELSE IF resp'.op = "reset" /\ ~resp'.failed
               THEN new = <<>>
               ELSE new = old ]_vars

\* a question that got the fallback answer, asked after an earlier question
C28_Witness ==
    /\ Asked
    /\ ~resp.generator_called
    /\ Len(session.chat_history) = 4
    /\ LastTurn.role = "assistant"
    /\ LastTurn.sources = <<>>

----------------------------------------------------------------------------
(* The lazy singletons: SpecSequential, SpecConcurrent *)

\* the accessor the constructor of a cell's object calls: RetrievalEngine()
\* calls get_vector_store(), VectorStore() calls get_embedder()
Requires(cell) ==
    IF cell = "_retrieval_engine_instance" THEN "_vector_store_instance"
    ELSE IF cell = "_vector_store_instance" THEN "_embedder_instance"
    ELSE "none"

\* Faulty variant of is_none: the accessor makes a new object on every call
is_none_always(cells, cell) == TRUE

\* the check of an accessor or property: "if <cell> is None"
is_none(cells, cell) == cells[cell] = NoObject

RECURSIVE needed(_, _)
\* the cells for which making the object of this cell makes an object, in the
\* order in which the assignments happen: the nested accessor first
needed(cells, cell) ==
    LET nested == Requires(cell)
    IN  (IF nested # "none" /\ is_none(cells, nested) THEN needed(cells, nested)
         ELSE <<>>) \o <<cell>>

\* Faulty variant of construct: the cell is looked at again before the object
\* is made, and nothing is made when it holds one
construct_checked(cells, made, cell, n) ==
    LET chain == needed(cells, cell)
        done == IF is_none(cells, cell) THEN {chain[i] : i \in 1..n} ELSE {}
    IN  [singletons |-> [c \in Cells |-> IF c \in done THEN made[c] + 1 ELSE cells[c]],
         constructions |-> [c \in Cells |-> IF c \in done THEN made[c] + 1 ELSE made[c]],
         raised |-> is_none(cells, cell) /\ n < Len(chain)]

\* "<cell> = Constructor()": the first n of the needed objects are made and
\* assigned, then a constructor raises, if n is less than their number
construct(cells, made, cell, n) ==
    LET chain == needed(cells, cell)
        done == {chain[i] : i \in 1..n}
    IN  [singletons |-> [c \in Cells |-> IF c \in done THEN made[c] + 1 ELSE cells[c]],
         constructions |-> [c \in Cells |-> IF c \in done THEN made[c] + 1 ELSE made[c]],
         raised |-> n < Len(chain)]

singleton_unused == <<engine_vars, pure_vars, store_vars, generator_vars, session_vars>>

\* a caller enters an accessor (or reads a property) and makes the check; when
\* the cell holds an object, that object is returned
Call(t, cell) ==
    /\ callers[t].pc = "idle"
    /\ callers' = [callers EXCEPT ![t] =
                      IF is_none(singletons, cell)
                      THEN [pc |-> "constructing", cell |-> cell, held |-> NoObject]
                      ELSE [pc |-> "idle", cell |-> cell, held |-> singletons[cell]]]
    /\ UNCHANGED <<singletons, constructions, singleton_unused>>

\* the caller, having found the cell empty, makes the object and assigns it,
\* or a constructor raises and the call ends
ConstructAndAssign(t, n) ==
    /\ callers[t].pc = "constructing"
    /\ LET c == construct(singletons, constructions, callers[t].cell, n)
       IN  /\ singletons' = c.singletons
           /\ constructions' = c.constructions
           /\ callers' = [callers EXCEPT ![t] =
                             IF c.raised THEN [NoCall EXCEPT !.cell = callers[t].cell]
                             ELSE [@ EXCEPT !.pc = "assigned"]]
    /\ UNCHANGED singleton_unused

\* "return <cell>": the caller is given what the cell holds now
Return_instance(t) ==
    /\ callers[t].pc = "assigned"
    /\ callers' = [callers EXCEPT ![t] = [pc |-> "idle", cell |-> @.cell,
                                          held |-> singletons[@.cell]]]
    /\ UNCHANGED <<singletons, constructions, singleton_unused>>

InitSingleton ==
    /\ InitSingletonVars
    /\ points = <<>>
    /\ vector_store = None
    /\ InitEngineVars
    /\ InitPureVars
    /\ InitStoreVars
    /\ InitGeneratorVars
    /\ InitSessionVars

NextConcurrent ==
    \/ \E t \in Callers, cell \in Cells : Call(t, cell)
    \/ \E t \in Callers :
          /\ callers[t].pc = "constructing"
          /\ \E n \in 0..Len(needed(singletons, callers[t].cell)) : ConstructAndAssign(t, n)
    \/ \E t \in Callers : Return_instance(t)

\* one call at a time: a call begins only when no other call is under way
NextSequential ==
    \/ /\ \A t \in Callers : callers[t].pc = "idle"
       /\ \E t \in Callers, cell \in Cells : Call(t, cell)
    \/ \E t \in Callers :
          /\ callers[t].pc = "constructing"
          /\ \E n \in 0..Len(needed(singletons, callers[t].cell)) : ConstructAndAssign(t, n)
    \/ \E t \in Callers : Return_instance(t)

SpecConcurrent == InitSingleton /\ [][NextConcurrent]_vars

SpecSequential == InitSingleton /\ [][NextSequential]_vars

\* C23: with one call at a time, at most one object is ever made for each
\* of the four accessors and for the lazily loaded model and reranker; once
\* an object has been made the cell holds it from then on, and every call
\* that returns, returns the object the cell holds.
C23_ConstructedOnce ==
    \A cell \in Cells :
        /\ constructions[cell] <= 1
        /\ singletons[cell] = constructions[cell]
        /\ \A t \in Callers :
              (callers[t].cell = cell /\ callers[t].held # NoObject)
                 => callers[t].held = singletons[cell]

\* both callers have called get_retrieval_engine, one after the other, and
\* hold the one engine; the store and the embedder were made once, with it
C23_Witness ==
    /\ \A t \in Callers :
          /\ callers[t].pc = "idle"
          /\ callers[t].cell = "_retrieval_engine_instance"
          /\ callers[t].held = 1
    /\ constructions["_retrieval_engine_instance"] = 1
    /\ constructions["_vector_store_instance"] = 1
    /\ constructions["_embedder_instance"] = 1

\* C26: nothing guards the check-then-set: a caller that found the cell
\* empty makes and assigns a new object whatever the cell holds by then, so
\* the number of objects made for a cell is not limited to one, and a call
\* returns what the cell holds when it returns.
C26_UnguardedCheckThenSet ==
    [][ \A t \in Callers :
           (callers[t].pc = "constructing" /\ callers'[t].pc = "assigned") =>
              LET cell == callers[t].cell
              IN  /\ constructions'[cell] = constructions[cell] + 1
                  /\ singletons'[cell] = constructions'[cell]
                  /\ singletons'[cell] # singletons[cell] ]_vars

\* two callers made their first call to get_embedder at the same time: two
\* embedders were made and each caller holds another one
C26_Witness ==
    /\ \A t \in Callers :
          /\ callers[t].pc = "idle"
          /\ callers[t].cell = "_embedder_instance"
          /\ callers[t].held # NoObject
    /\ callers["a"].held # callers["b"].held
    /\ constructions["_embedder_instance"] = 2

====
